---- MODULE Spec2Model ----
(***************************************************************************)
(* Model of runway's sync orchestration core.                              *)
(*                                                                         *)
(*   Part I   the watch scheduler of src/commands/watch.rs: the notify     *)
(*            callback, the debounce task and the select! loop of watch(). *)
(*   Part II  one sync pass of src/commands/sync.rs: SyncSession::new,     *)
(*            find_assets, iter_needs_sync, the strategies' per-asset      *)
(*            step and write_state.                                        *)
(*                                                                         *)
(*   Part III the per-asset futures of the remote strategy, sync.rs:473-582*)
(*   Part IV  generate_tree of src/codegen/mod.rs.                         *)
(*                                                                         *)
(* Spec / FairSpec run part I, SyncSpec and PassSpec run part II,          *)
(* UploadSpec runs part III and TreeSpec part IV.                          *)
(***************************************************************************)
EXTENDS Integers, Sequences, FiniteSets, TLC

(***************************************************************************)
(* Bounds of the model.                                                    *)
(***************************************************************************)
\* number of notifications (changes and errors) the filesystem listener delivers
MaxEvents == 2

\* granularity of the model's clock, in milliseconds
TimeStep == 25

\* number of asset files in the project
MaxAssets == 2

\* number of distinct byte contents a file can have
MaxContent == 2

\* number of things that happen around the program: a sync pass is started,
\* another program changes a file, a second passes on the system clock
MaxSteps == 3

\* number of path components of an ident handed to codegen
MaxDepth == 2

\* number of assets in a State handed to codegen
MaxIdents == 2
MaxTargets == 2

(***************************************************************************)
(* Program constants.                                                      *)
(***************************************************************************)
\* watch.rs:122  tokio::time::Duration::from_millis(50)
Duration == 50

\* sync.rs:453-455
max_create_failures == 3
max_get_failures == 3
max_textureid_failures == 3

\* sync.rs:481  Duration::from_secs(3), slept before a create is tried again
CreateRetryDelay == 3

Min(a, b) == IF a <= b THEN a ELSE b

(***************************************************************************)
(* Part I: state of watch().                                               *)
(***************************************************************************)
VARIABLES
    pc,            \* position of watch(): "setup", "loop", "returned", "failed"
    notify_rx,     \* messages in flight on the notify channel (watch.rs:113)
    debounced_rx,  \* messages in flight on the debounced channel (watch.rs:114)
    rx_closed,     \* debounced_rx.close() has been called (watch.rs:222)
    changed,       \* the debounce task's flag (watch.rs:125)
    timer,         \* ms elapsed in the debounce task's current timeout() call
    debounce,      \* the debounce task: "running", "panicked"
    sync_task,     \* Option<JoinHandle>: "None", "Pending" or the finished result
    sync_again,    \* the run-again flag (watch.rs:167)
    running,       \* number of spawned sync passes that have not finished
    sigint,        \* a ctrl-c signal is pending
    events_left,   \* notifications the listener may still deliver
    \* history variables: they record what happened and never guard a step
    started,       \* number of sync passes started so far
    delivered,     \* number of change events delivered by the listener so far
    signals,       \* number of sync-requested signals emitted by the debounce task
    since_event,   \* ms since the last change event was delivered (capped)
    unsignalled,   \* a change was delivered and no signal was emitted since
    unserved,      \* a change was delivered and no pass was started since
    sigs_during    \* sync-requested signals received during the current pass

(***************************************************************************)
(* Part II: state of one sync pass and of the files it works on.           *)
(***************************************************************************)
VARIABLES
    files,         \* the project's asset files: ident -> contents
    disk,          \* the output files that exist under <root>/.runway
    now,           \* SystemTime::now() in whole seconds, as last read
    state_file,    \* the persisted State: ident -> targets map
    pc_sync,       \* position of sync_with_config: "idle", "sync", "done"
    force_sync,    \* SyncSession.force_sync
    target,        \* the key of the target the project is synced to
    prev_state,    \* SyncSession.prev_state
    assets,        \* SyncSession.assets: ident -> Asset
    errors,        \* SyncSession.errors, by its length
    todo,          \* idents the strategy's iterator or futures have not dealt with yet
    ok_count,      \* the strategy's ok_count
    err_count,     \* the strategy's err_count
    result,        \* what sync_with_config returned: "none", "Ok", "HadErrors", "State"
    passes,        \* number of passes started
    steps_left,    \* number of things that may still happen around the program
    entries,       \* what the directory walk yields for each path: "file", "none", "error"
    codegens,      \* config.codegens, by its length
    error_count,   \* HadErrors.error_count of the returned result, 0 without one
    \* history variables
    attempted,     \* idents the current pass selected and tried to sync
    failed,        \* idents whose sync failed in the current pass
    wrote,         \* the current pass wrote the state file
    prev_pass,     \* <<>> or the record of the pass before the current one
    timestamp,     \* the cache-busting token of the local strategy's pass
    fs_during,     \* summary of the filesystem changes made while the current pass ran
    fs_between,    \* ... made between the previous pass and the current one
    fs_idle        \* ... made since the current pass finished

syncVars == <<files, disk, now, state_file, pc_sync, force_sync, target, prev_state,
              assets, errors, todo, ok_count, err_count, result, passes, steps_left,
              attempted, failed, wrote, prev_pass, timestamp, fs_during, fs_between,
              fs_idle, entries, codegens, error_count>>

(***************************************************************************)
(* Part III: the per-asset futures of the remote strategy.                 *)
(***************************************************************************)
VARIABLES
    tasks          \* ident -> the state of the asset's future (sync.rs:473-582)

uploadVars == <<tasks>>

(***************************************************************************)
(* Part IV: codegen tree construction.                                     *)
(***************************************************************************)
VARIABLES
    tree_in,       \* the State and CodegenConfig handed to generate_tree
    tree_out       \* <<>> or the Result generate_tree returned

treeVars == <<tree_in, tree_out>>

(***************************************************************************)
(* History of the passes: what was delivered and generated.                *)
(***************************************************************************)
VARIABLES
    uploaded,      \* <<ident, target key>> -> the bytes last delivered to the target
    generated      \* number of calls of codegen::generate_all in the current pass

passHist == <<uploaded, generated>>

(***************************************************************************)
(* Part V: state of sync(), the command's entry.                           *)
(***************************************************************************)
VARIABLES
    config_file,   \* runway.toml: whether it parses and its [[target]] tables
    requested,     \* options.project.target
    call           \* sync(): "none", the ConfigError returned, or "sync_with_config"

configVars == <<config_file, requested, call>>

watchVars == <<pc, notify_rx, debounced_rx, rx_closed, changed, timer, debounce,
               sync_task, sync_again, running, sigint, events_left>>
histVars == <<started, delivered, signals, since_event, unsignalled, unserved,
              sigs_during>>
vars == <<watchVars, histVars, syncVars, uploadVars, treeVars, passHist, configVars>>

Finished == {"Ok", "Err", "Panic"}

\* InitialRequest without the request sent at startup
InitialRequestMissing == <<>>

\* watch.rs:117  debounced_tx.send(Ok(())): sync once when watch mode is started
InitialRequest == <<"Ok">>

WatchInit ==
    /\ pc = "setup"
    /\ notify_rx = <<>>
    /\ debounced_rx = InitialRequest
    /\ rx_closed = FALSE
    /\ changed = FALSE
    /\ timer = 0
    /\ debounce = "running"
    /\ sync_task = "None"
    /\ sync_again = FALSE
    /\ running = 0
    /\ sigint = FALSE
    /\ events_left = MaxEvents
    /\ started = 0
    /\ delivered = 0
    /\ signals = 0
    /\ since_event = Duration
    /\ unsignalled = FALSE
    /\ unserved = FALSE
    /\ sigs_during = 0

(***************************************************************************)
(* The environment: the filesystem listener, the clock, the user.          *)
(***************************************************************************)
\* watch.rs:156-161: the watchers are built; a failure returns the error
WatcherSetup ==
    /\ pc = "setup"
    /\ \E ok \in BOOLEAN : pc' = IF ok THEN "loop" ELSE "failed"
    /\ UNCHANGED <<notify_rx, debounced_rx, rx_closed, changed, timer, debounce,
                   sync_task, sync_again, running, sigint, events_left>>
    /\ UNCHANGED histVars
    /\ UNCHANGED <<syncVars, uploadVars, treeVars, passHist, configVars>>

\* watch.rs:41-61: an event whose paths match the glob sends Ok(()) to notify_tx
NotifyEvent ==
    /\ pc \in {"setup", "loop"}
    /\ events_left > 0
    /\ events_left' = events_left - 1
    /\ notify_rx' = Append(notify_rx, "Ok")
    /\ delivered' = delivered + 1
    /\ since_event' = 0
    /\ unsignalled' = TRUE
    /\ unserved' = TRUE
    /\ UNCHANGED <<pc, debounced_rx, rx_closed, changed, timer, debounce,
                   sync_task, sync_again, running, sigint>>
    /\ UNCHANGED <<started, signals, sigs_during>>
    /\ UNCHANGED <<syncVars, uploadVars, treeVars, passHist, configVars>>

\* watch.rs:62-65: an error of the listener is forwarded to notify_tx
NotifyError ==
    /\ pc \in {"setup", "loop"}
    /\ events_left > 0
    /\ events_left' = events_left - 1
    /\ notify_rx' = Append(notify_rx, "Err")
    /\ UNCHANGED <<pc, debounced_rx, rx_closed, changed, timer, debounce,
                   sync_task, sync_again, running, sigint>>
    /\ UNCHANGED histVars
    /\ UNCHANGED <<syncVars, uploadVars, treeVars, passHist, configVars>>

\* time passes: the timeout of watch.rs:128 and the quiet period advance
Tick ==
    /\ pc \in {"setup", "loop"}
    /\ timer < Duration \/ since_event < Duration
    /\ timer' = IF pc = "loop" /\ debounce = "running"
                THEN Min(timer + TimeStep, Duration) ELSE timer
    /\ since_event' = Min(since_event + TimeStep, Duration)
    /\ UNCHANGED <<pc, notify_rx, debounced_rx, rx_closed, changed, debounce,
                   sync_task, sync_again, running, sigint, events_left>>
    /\ UNCHANGED <<started, delivered, signals, unsignalled, unserved, sigs_during>>
    /\ UNCHANGED <<syncVars, uploadVars, treeVars, passHist, configVars>>

\* the user presses ctrl-c (watch.rs:220 waits for it)
CtrlC ==
    /\ pc \in {"setup", "loop"}
    /\ ~sigint
    /\ ~rx_closed
    /\ sigint' = TRUE
    /\ UNCHANGED <<pc, notify_rx, debounced_rx, rx_closed, changed, timer, debounce,
                   sync_task, sync_again, running, events_left>>
    /\ UNCHANGED histVars
    /\ UNCHANGED <<syncVars, uploadVars, treeVars, passHist, configVars>>

(***************************************************************************)
(* The debounce task, watch.rs:120-154.  It runs on the current_thread     *)
(* runtime (main.rs:20), so it only runs once watch() awaits in its loop.  *)
(***************************************************************************)
\* debounced_tx.send(msg).expect("debounced_rx is closed"), watch.rs:137,149:
\* the send fails once the receiver was closed and expect() panics the task
DebouncedSend(msg) ==
    IF rx_closed
    THEN /\ debounce' = "panicked"
         /\ debounced_rx' = debounced_rx
    ELSE /\ debounce' = debounce
         /\ debounced_rx' = Append(debounced_rx, msg)

\* DebounceRecv that drops the pending change when it forwards an error
DebounceRecvErrorResets ==
    /\ pc = "loop"
    /\ debounce = "running"
    /\ notify_rx # <<>>
    /\ notify_rx' = Tail(notify_rx)
    /\ timer' = 0
    /\ IF Head(notify_rx) = "Ok"
       THEN /\ changed' = TRUE
            /\ UNCHANGED <<debounce, debounced_rx>>
       ELSE /\ changed' = FALSE
            /\ DebouncedSend("Err")
    /\ UNCHANGED <<pc, rx_closed, sync_task, sync_again, running, sigint, events_left>>
    /\ UNCHANGED histVars
    /\ UNCHANGED <<syncVars, uploadVars, treeVars, passHist, configVars>>

\* watch.rs:129-140: timeout() yields a notification before the quiet period ended
DebounceRecv ==
    /\ pc = "loop"
    /\ debounce = "running"
    /\ notify_rx # <<>>
    /\ notify_rx' = Tail(notify_rx)
    /\ timer' = 0
    /\ IF Head(notify_rx) = "Ok"
       THEN /\ changed' = TRUE
            /\ UNCHANGED <<debounce, debounced_rx>>
       ELSE /\ changed' = changed
            /\ DebouncedSend("Err")
    /\ UNCHANGED <<pc, rx_closed, sync_task, sync_again, running, sigint, events_left>>
    /\ UNCHANGED histVars
    /\ UNCHANGED <<syncVars, uploadVars, treeVars, passHist, configVars>>

\* DebounceTimeout that does not clear `changed` when it emits
DebounceTimeoutKeepsChanged ==
    /\ pc = "loop"
    /\ debounce = "running"
    /\ notify_rx = <<>>
    /\ timer >= Duration
    /\ timer' = 0
    /\ IF changed
       THEN /\ changed' = changed
            /\ DebouncedSend("Ok")
            /\ signals' = IF rx_closed THEN signals ELSE signals + 1
            /\ unsignalled' = IF rx_closed THEN unsignalled ELSE FALSE
       ELSE /\ UNCHANGED <<changed, debounce, debounced_rx>>
            /\ UNCHANGED <<signals, unsignalled>>
    /\ UNCHANGED <<pc, notify_rx, rx_closed, sync_task, sync_again, running, sigint,
                   events_left>>
    /\ UNCHANGED <<started, delivered, since_event, unserved, sigs_during>>
    /\ UNCHANGED <<syncVars, uploadVars, treeVars, passHist, configVars>>

\* watch.rs:145-151: nothing was received for `duration`
DebounceTimeout ==
    /\ pc = "loop"
    /\ debounce = "running"
    /\ notify_rx = <<>>
    /\ timer >= Duration
    /\ timer' = 0
    /\ IF changed
       THEN /\ changed' = FALSE
            /\ DebouncedSend("Ok")
            /\ signals' = IF rx_closed THEN signals ELSE signals + 1
            /\ unsignalled' = IF rx_closed THEN unsignalled ELSE FALSE
       ELSE /\ UNCHANGED <<changed, debounce, debounced_rx>>
            /\ UNCHANGED <<signals, unsignalled>>
    /\ UNCHANGED <<pc, notify_rx, rx_closed, sync_task, sync_again, running, sigint,
                   events_left>>
    /\ UNCHANGED <<started, delivered, since_event, unserved, sigs_during>>
    /\ UNCHANGED <<syncVars, uploadVars, treeVars, passHist, configVars>>

(***************************************************************************)
(* The scheduler loop of watch(), watch.rs:179-225.                        *)
(***************************************************************************)
\* watch.rs:170-177  start_sync: spawn sync_with_config and keep its handle
StartSync ==
    /\ sync_task' = "Pending"
    /\ running' = running + 1
    /\ started' = started + 1
    /\ unserved' = FALSE
    /\ sigs_during' = 0

\* SchedRecv that starts a pass for every signal, even while one is running
SchedRecvAlwaysStarts ==
    /\ pc = "loop"
    /\ debounced_rx # <<>>
    /\ debounced_rx' = Tail(debounced_rx)
    /\ IF Head(debounced_rx) = "Ok"
       THEN /\ sync_again' = FALSE
            /\ StartSync
       ELSE UNCHANGED <<sync_again, sync_task, running, started, unserved, sigs_during>>
    /\ UNCHANGED <<pc, notify_rx, rx_closed, changed, timer, debounce, sigint,
                   events_left>>
    /\ UNCHANGED <<delivered, signals, since_event, unsignalled>>
    /\ UNCHANGED <<syncVars, uploadVars, treeVars, passHist, configVars>>

\* watch.rs:181-196: select! branch debounced_rx.recv() yielding a message
SchedRecv ==
    /\ pc = "loop"
    /\ debounced_rx # <<>>
    /\ debounced_rx' = Tail(debounced_rx)
    /\ IF Head(debounced_rx) = "Ok"
       THEN IF sync_task # "None"
            THEN /\ sync_again' = TRUE
                 /\ sigs_during' = sigs_during + 1
                 /\ UNCHANGED <<sync_task, running, started, unserved>>
            ELSE /\ sync_again' = FALSE
                 /\ StartSync
       ELSE UNCHANGED <<sync_again, sync_task, running, started, unserved, sigs_during>>
    /\ UNCHANGED <<pc, notify_rx, rx_closed, changed, timer, debounce, sigint,
                   events_left>>
    /\ UNCHANGED <<delivered, signals, since_event, unsignalled>>
    /\ UNCHANGED <<syncVars, uploadVars, treeVars, passHist, configVars>>

\* watch.rs:197-200: recv() is None, the channel is closed and empty: break,
\* watch() returns Ok(()) and main() drops the runtime with its tasks
SchedClosed ==
    /\ pc = "loop"
    /\ rx_closed
    /\ debounced_rx = <<>>
    /\ pc' = "returned"
    /\ UNCHANGED <<notify_rx, debounced_rx, rx_closed, changed, timer, debounce,
                   sync_task, sync_again, running, sigint, events_left>>
    /\ UNCHANGED histVars
    /\ UNCHANGED <<syncVars, uploadVars, treeVars, passHist, configVars>>

\* the spawned sync_with_config (watch.rs:174-176) finishes: Ok(()), Err(SyncError)
\* or a panic that the handle reports as a JoinError
SyncTaskFinish ==
    /\ pc = "loop"
    /\ running > 0
    /\ running' = running - 1
    /\ \E outcome \in Finished :
         sync_task' = IF sync_task = "Pending" THEN outcome ELSE sync_task
    /\ UNCHANGED <<pc, notify_rx, debounced_rx, rx_closed, changed, timer, debounce,
                   sync_again, sigint, events_left>>
    /\ UNCHANGED histVars
    /\ UNCHANGED <<syncVars, uploadVars, treeVars, passHist, configVars>>

\* watch.rs:202-219: select! branch joining the finished sync task
SchedJoin ==
    /\ pc = "loop"
    /\ sync_task \in Finished
    /\ IF sync_task = "Ok" /\ sync_again
       THEN /\ sync_again' = FALSE
            /\ StartSync
       ELSE /\ sync_task' = "None"
            /\ UNCHANGED <<sync_again, running, started, unserved, sigs_during>>
    /\ UNCHANGED <<pc, notify_rx, debounced_rx, rx_closed, changed, timer, debounce,
                   sigint, events_left>>
    /\ UNCHANGED <<delivered, signals, since_event, unsignalled>>
    /\ UNCHANGED <<syncVars, uploadVars, treeVars, passHist, configVars>>

\* watch.rs:220-223: select! branch ctrl_c(): close the receiver
SchedCtrlC ==
    /\ pc = "loop"
    /\ sigint
    /\ sigint' = FALSE
    /\ rx_closed' = TRUE
    /\ UNCHANGED <<pc, notify_rx, debounced_rx, changed, timer, debounce,
                   sync_task, sync_again, running, events_left>>
    /\ UNCHANGED histVars
    /\ UNCHANGED <<syncVars, uploadVars, treeVars, passHist, configVars>>


(***************************************************************************)
(* Part II: data of a sync pass.                                           *)
(***************************************************************************)
Idents == 1..MaxAssets
Contents == 1..MaxContent

\* config.targets: one target of each type, keyed by its type's name
TargetKeys == {"local", "roblox"}
TargetType(key) == IF key = "local" THEN "Local" ELSE "Roblox"

\* config.rs:46-53  TargetType::to_key
to_key(type) == IF type = "Local" THEN "local" ELSE "roblox"

\* config.rs:77-85  From<IntermediateTarget>: a target without a key is keyed
\* by its type's name
TargetConfig(other) ==
    [key |-> IF other.key = <<>> THEN to_key(other.type) ELSE other.key[1],
     type |-> other.type]

\* the [[target]] tables a runway.toml is written with: without a key, keyed
\* by the type's name, or a second remote target keyed "staging"
IntermediateTargets ==
    {[key |-> <<>>, type |-> "Local"], [key |-> <<>>, type |-> "Roblox"],
     [key |-> <<"local">>, type |-> "Local"],
     [key |-> <<"roblox">>, type |-> "Roblox"],
     [key |-> <<"staging">>, type |-> "Roblox"]}

\* the keys asked for on the command line
RequestedKeys == {"local", "roblox", "staging"}

\* the sequences over S of at most n elements
RECURSIVE SeqsUpTo(_, _)
SeqsUpTo(S, n) ==
    IF n = 0 THEN {<<>>}
    ELSE LET shorter == SeqsUpTo(S, n - 1)
         IN shorter \cup {Append(q, x) : q \in shorter, x \in S}

\* the files runway.toml can be: unreadable, not the TOML of a Config, or a
\* Config with at most MaxTargets targets
ConfigFiles ==
    [readable : BOOLEAN, toml_ok : BOOLEAN,
     targets : SeqsUpTo(IntermediateTargets, MaxTargets)]

\* the runway.toml of a project with one target of each type
DefaultConfig ==
    [readable |-> TRUE, toml_ok |-> TRUE,
     targets |-> <<[key |-> <<>>, type |-> "Local"],
                   [key |-> <<>>, type |-> "Roblox"]>>]

\* read_from_file that does not look for duplicate keys
read_from_fileAnyKeys(file) ==
    IF ~file.readable THEN <<"Err", "Io">>
    ELSE IF ~file.toml_ok THEN <<"Err", "Toml">>
    ELSE <<"Ok", [n \in DOMAIN file.targets |-> TargetConfig(file.targets[n])]>>

\* config.rs:138-170  Config::read_from_file: Result<Config, ConfigError>, the
\* Config by its targets
read_from_file(file) ==
    IF ~file.readable THEN <<"Err", "Io">>
    ELSE IF ~file.toml_ok THEN <<"Err", "Toml">>
    ELSE LET targets == [n \in DOMAIN file.targets |->
                            TargetConfig(file.targets[n])]
             unique_keys_len ==
                 Cardinality({targets[n].key : n \in DOMAIN targets})
         IN IF unique_keys_len < Len(targets)
            THEN <<"Err", "DuplicateKeys">>
            ELSE <<"Ok", targets>>

\* sync.rs:63-67  .into_iter().find(|t| t.key == options.project.target): the
\* first target of that key, as an Option
find(targets, key) ==
    LET hits == {n \in DOMAIN targets : targets[n].key = key}
    IN IF hits = {} THEN <<>>
       ELSE <<targets[CHOOSE n \in hits : \A m \in hits : n <= m]>>

\* sync.rs:691-693: the blake3 hash of the contents, taken as collision free
generate_asset_hash(content) == <<"blake3", content>>

\* asset_ident.rs:37-46: <stem>-<cb>.<ext> next to the ident
with_cache_bust(ident, cb) == <<ident, "-", cb>>

\* HashMap / BTreeMap insert
Put(map, key, value) ==
    [x \in DOMAIN map \cup {key} |-> IF x = key THEN value ELSE map[x]]

\* the bytes a target receives: the contents of a source file as they are, or
\* alpha-bled and encoded again
Bytes(content, bled) == [source |-> content, bled |-> bled]

\* preprocess/mod.rs:14-36: the contents of a DecalPng are replaced by the
\* alpha-bled image; the odd idents are .png decals with an alpha channel
preprocess(ident, content) == Bytes(content, ident % 2 = 1)

\* sync.rs:624  filepath: asset.path: the create request names the file, whose
\* bytes are those on disk when the request is built
read_file(ident) == Bytes(files[ident], FALSE)

\* State::read_from_config: the State last written for this project
read_from_config == state_file

\* State::write_for_config: the state file holds exactly the State written
write_for_config(state) == state_file' = state

\* a state file written before local_path was recorded for the "local" key
LegacyState ==
    [i \in {1} |->
       [targets |-> [k \in {"local"} |->
           [hash |-> generate_asset_hash(1),
            id |-> <<"rbxasset://", with_cache_bust(1, 0)>>,
            local_path |-> <<>>]]]]

InitialStates == {<<>>, LegacyState}

SyncInit0 ==
    /\ files = [i \in Idents |-> 1]
    /\ disk = {}
    /\ now = 0
    /\ state_file = <<>>
    /\ pc_sync = "idle"
    /\ force_sync = FALSE
    /\ target = "local"
    /\ prev_state = <<>>
    /\ assets = <<>>
    /\ errors = 0
    /\ todo = {}
    /\ ok_count = 0
    /\ err_count = 0
    /\ result = "none"
    /\ passes = 0
    /\ steps_left = MaxSteps
    /\ attempted = {}
    /\ failed = {}
    /\ wrote = FALSE
    /\ prev_pass = <<>>
    /\ timestamp = 0
    /\ fs_during = <<>>
    /\ fs_between = <<>>
    /\ fs_idle = <<>>
    /\ entries = [i \in Idents |-> "file"]
    /\ codegens = 0
    /\ error_count = 0
    /\ tasks = <<>>
    /\ tree_in = <<>>
    /\ tree_out = <<>>
    /\ uploaded = <<>>
    /\ generated = 0
    /\ config_file = DefaultConfig
    /\ requested = target
    /\ call = "sync_with_config"

(***************************************************************************)
(* Other programs.                                                         *)
(***************************************************************************)
InPass == pc_sync = "sync"

\* the summary of a series of changes: <<>> for none, the change itself for a
\* single one, and "many" for more
Noted(summary, token) == IF summary = <<>> THEN <<token>> ELSE << <<"many", 0>> >>

FsChange(token) ==
    /\ steps_left > 0
    /\ steps_left' = steps_left - 1
    /\ IF InPass
       THEN fs_during' = Noted(fs_during, token) /\ fs_idle' = fs_idle
       ELSE fs_idle' = Noted(fs_idle, token) /\ fs_during' = fs_during

\* the bytes of an asset file are modified: the file gets the next of the
\* contents, and the first again after the last
ModifyFile ==
    /\ \E i \in Idents :
         /\ files' = [files EXCEPT ![i] = (@ % MaxContent) + 1]
         /\ FsChange(<<"file", i>>)
    /\ UNCHANGED <<disk, now, state_file, pc_sync, force_sync, target, prev_state,
                   assets, errors, todo, ok_count, err_count, result, passes,
                   attempted, failed, wrote, prev_pass, timestamp, fs_between>>
    /\ UNCHANGED <<entries, codegens, error_count, tasks>>
    /\ UNCHANGED passHist
    /\ UNCHANGED <<watchVars, histVars, treeVars, configVars>>

\* an output file under <root>/.runway is deleted
DeleteArtifact ==
    /\ \E path \in disk :
         /\ disk' = disk \ {path}
         /\ FsChange(<<"artifact", 0>>)
    /\ UNCHANGED <<files, now, state_file, pc_sync, force_sync, target, prev_state,
                   assets, errors, todo, ok_count, err_count, result, passes,
                   attempted, failed, wrote, prev_pass, timestamp, fs_between>>
    /\ UNCHANGED <<entries, codegens, error_count, tasks>>
    /\ UNCHANGED passHist
    /\ UNCHANGED <<watchVars, histVars, treeVars, configVars>>

(***************************************************************************)
(* sync_with_config, sync.rs:72-133.                                       *)
(***************************************************************************)
\* process_entry that hashes the file's path instead of its contents
process_entryHashesPath(prev, ident) ==
    [hash |-> generate_asset_hash(ident),
     contents |-> files[ident],
     targets |-> IF ident \in DOMAIN prev THEN prev[ident].targets ELSE <<>>]

\* sync.rs:214-248  process_entry: read and hash the file, seed its targets
\* from the previous state
process_entry(prev, ident) ==
    [hash |-> generate_asset_hash(files[ident]),
     contents |-> files[ident],
     targets |-> IF ident \in DOMAIN prev THEN prev[ident].targets ELSE <<>>]

\* NeedsSync that checks local_path whatever check_local_path says
NeedsSyncAlwaysChecksPath(force, ident, asset, prev, key, check_local_path, exists) ==
    IF force THEN TRUE
    ELSE IF ident \in DOMAIN prev
         THEN IF key \in DOMAIN prev[ident].targets
              THEN LET prev_target == prev[ident].targets[key] IN
                   IF prev_target.hash # asset.hash THEN TRUE
                   ELSE IF prev_target.local_path # <<>>
                        THEN prev_target.local_path[1] \notin exists
                        ELSE TRUE
              ELSE TRUE
         ELSE TRUE

\* sync.rs:263-309  the filter of iter_needs_sync; `exists` is the set of
\* paths for which Path::exists() answers true
NeedsSync(force, ident, asset, prev, key, check_local_path, exists) ==
    IF force THEN TRUE
    ELSE IF ident \in DOMAIN prev
         THEN IF key \in DOMAIN prev[ident].targets
              THEN LET prev_target == prev[ident].targets[key] IN
                   IF prev_target.hash # asset.hash THEN TRUE
                   ELSE IF check_local_path
                           /\ (IF prev_target.local_path # <<>>
                               THEN prev_target.local_path[1] \notin exists
                               ELSE TRUE)
                        THEN TRUE
                        ELSE FALSE
              ELSE TRUE
         ELSE TRUE

\* sync.rs:380 and sync.rs:465: the local strategy passes &true, the remote &false
CheckLocalPath(key) == TargetType(key) = "Local"

\* sync.rs:192-207: the walk's entries that become an Asset, and those that
\* raise an error (an entry that cannot be walked, read or typed)
Discovered == {i \in Idents : entries[i] = "file"}
DiscoveryErrors == {i \in Idents : entries[i] = "error"}

\* sync.rs:181-212  find_assets: every matched file becomes an Asset
find_assets(prev) == [i \in Discovered |-> process_entry(prev, i)]

\* sync.rs:112-115: SyncSession::new reads the previous state (sync.rs:152-175),
\* find_assets discovers the assets, and the strategy's perform_sync starts.
\* The local strategy (sync.rs:355-373) reads its timestamp from the system
\* clock, on which dt seconds have passed since it was last read, and then
\* iterates lazily; the remote strategy (sync.rs:445-576) collects one future
\* for every asset the filter selects before it awaits any of them.
\* No await separates these steps.
SyncBegin ==
    /\ pc_sync \in {"idle", "done"}
    /\ steps_left > 0
    /\ passes' = passes + 1
    /\ IF TargetType(target) = "Local"
       THEN \E dt \in 0..(steps_left - 1) :
              /\ now' = now + dt
              /\ timestamp' = now + dt
              /\ steps_left' = steps_left - 1 - dt
       ELSE /\ UNCHANGED <<now, timestamp>>
            /\ steps_left' = steps_left - 1
    /\ prev_state' = read_from_config
    /\ assets' = find_assets(read_from_config)
    /\ \E f \in BOOLEAN :
         /\ force_sync' = f
         /\ todo' = IF TargetType(target) = "Local"
                    THEN Discovered
                    ELSE {i \in Discovered :
                            NeedsSync(f, i, find_assets(read_from_config)[i],
                                      read_from_config, target,
                                      CheckLocalPath(target), disk)}
    /\ errors' = Cardinality(DiscoveryErrors)
    /\ ok_count' = 0
    /\ err_count' = 0
    /\ result' = "none"
    /\ error_count' = 0
    /\ pc_sync' = "sync"
    /\ prev_pass' = IF passes = 0 THEN <<>>
                    ELSE <<[target |-> target, force |-> force_sync,
                            synced |-> attempted \ failed, failed |-> failed,
                            wrote |-> wrote, fs_during |-> fs_during]>>
    /\ attempted' = {}
    /\ failed' = {}
    /\ wrote' = FALSE
    /\ fs_between' = fs_idle
    /\ fs_idle' = <<>>
    /\ fs_during' = <<>>
    /\ generated' = 0
    /\ uploaded' = <<>>
    /\ UNCHANGED <<files, disk, target, state_file, entries, codegens, tasks>>
    /\ UNCHANGED <<watchVars, histVars, treeVars, configVars>>

\* the local strategy's iterator passes over an asset that the filter rejects
SkipAsset(i) ==
    /\ todo' = todo \ {i}
    /\ UNCHANGED <<files, disk, now, state_file, pc_sync, force_sync, target,
                   prev_state, assets, errors, ok_count, err_count, result, passes,
                   steps_left, attempted, failed, wrote, prev_pass, timestamp,
                   fs_during, fs_between, fs_idle>>

\* FailAsset after which the strategy deals with no further asset
FailAssetStops(i) ==
    /\ todo' = {}
    /\ errors' = errors + 1
    /\ err_count' = err_count + 1
    /\ attempted' = attempted \cup {i}
    /\ failed' = failed \cup {i}
    /\ UNCHANGED <<files, disk, now, state_file, pc_sync, force_sync, target,
                   prev_state, assets, ok_count, result, passes, steps_left, wrote,
                   prev_pass, timestamp, fs_during, fs_between, fs_idle>>

\* FailAsset that raises the error without counting the failed asset
FailAssetUncounted(i) ==
    /\ todo' = todo \ {i}
    /\ errors' = errors + 1
    /\ err_count' = err_count
    /\ attempted' = attempted \cup {i}
    /\ failed' = failed \cup {i}
    /\ UNCHANGED <<files, disk, now, state_file, pc_sync, force_sync, target,
                   prev_state, assets, ok_count, result, passes, steps_left, wrote,
                   prev_pass, timestamp, fs_during, fs_between, fs_idle>>

\* sync.rs:412-418 and sync.rs:592-595: the asset's sync failed
FailAsset(i) ==
    /\ todo' = todo \ {i}
    /\ errors' = errors + 1
    /\ err_count' = err_count + 1
    /\ attempted' = attempted \cup {i}
    /\ failed' = failed \cup {i}
    /\ UNCHANGED <<files, disk, now, state_file, pc_sync, force_sync, target,
                   prev_state, assets, ok_count, result, passes, steps_left, wrote,
                   prev_pass, timestamp, fs_during, fs_between, fs_idle>>

\* the asset's sync succeeded and inserted `new_target` under the target's key
SucceedAsset(i, new_target) ==
    /\ todo' = todo \ {i}
    /\ assets' = [assets EXCEPT ![i].targets = Put(@, target, new_target)]
    /\ ok_count' = ok_count + 1
    /\ attempted' = attempted \cup {i}
    /\ UNCHANGED <<files, now, state_file, pc_sync, force_sync, target, prev_state,
                   errors, err_count, result, passes, steps_left, failed, wrote,
                   prev_pass, timestamp, fs_during, fs_between, fs_idle>>

\* LocalSyncAsset that records the output path without writing the file
LocalSyncAssetNoCopy ==
    /\ pc_sync = "sync"
    /\ TargetType(target) = "Local"
    /\ todo # {}
    /\ LET i == CHOOSE x \in todo : \A y \in todo : x <= y
           filename == with_cache_bust(i, timestamp)
       IN IF NeedsSync(force_sync, i, assets[i], prev_state, target,
                       CheckLocalPath(target), disk)
          THEN \E ok \in BOOLEAN :
                 IF ok
                 THEN /\ disk' = disk
                      /\ SucceedAsset(i, [hash |-> assets[i].hash,
                                          id |-> <<"rbxasset://", filename>>,
                                          local_path |-> <<filename>>])
                      /\ uploaded' = Put(uploaded, <<i, target>>,
                                         preprocess(i, assets[i].contents))
                 ELSE /\ disk' = disk
                      /\ FailAsset(i)
                      /\ assets' = assets
                      /\ uploaded' = uploaded
          ELSE SkipAsset(i) /\ uploaded' = uploaded
    /\ generated' = generated
    /\ UNCHANGED <<entries, codegens, error_count, tasks>>
    /\ UNCHANGED <<watchVars, histVars, treeVars, configVars>>

\* sync.rs:375-419: the local strategy's loop reaches the next asset, in the
\* order of the BTreeMap; the filter runs when the iterator gets there
LocalSyncAsset ==
    /\ pc_sync = "sync"
    /\ TargetType(target) = "Local"
    /\ todo # {}
    /\ LET i == CHOOSE x \in todo : \A y \in todo : x <= y
           filename == with_cache_bust(i, timestamp)
       IN IF NeedsSync(force_sync, i, assets[i], prev_state, target,
                       CheckLocalPath(target), disk)
          THEN \E ok \in BOOLEAN :
                 IF ok
                 THEN /\ disk' = disk \cup {filename}
                      /\ SucceedAsset(i, [hash |-> assets[i].hash,
                                          id |-> <<"rbxasset://", filename>>,
                                          local_path |-> <<filename>>])
                      /\ uploaded' = Put(uploaded, <<i, target>>,
                                         preprocess(i, assets[i].contents))
                 ELSE /\ disk' = disk
                      /\ FailAsset(i)
                      /\ assets' = assets
                      /\ uploaded' = uploaded
          ELSE SkipAsset(i) /\ uploaded' = uploaded
    /\ generated' = generated
    /\ UNCHANGED <<entries, codegens, error_count, tasks>>
    /\ UNCHANGED <<watchVars, histVars, treeVars, configVars>>

\* RobloxSyncAsset that records the asset's hash although its upload failed
RobloxSyncAssetRecordsFailure ==
    /\ pc_sync = "sync"
    /\ TargetType(target) = "Roblox"
    /\ \E i \in todo, ok \in BOOLEAN :
         IF ok
         THEN /\ SucceedAsset(i, [hash |-> assets[i].hash,
                                  id |-> <<"rbxassetid://", i, assets[i].contents>>,
                                  local_path |-> <<>>])
              /\ uploaded' = Put(uploaded, <<i, target>>, read_file(i))
         ELSE /\ todo' = todo \ {i}
              /\ errors' = errors + 1
              /\ err_count' = err_count + 1
              /\ attempted' = attempted \cup {i}
              /\ failed' = failed \cup {i}
              /\ assets' = [assets EXCEPT ![i].targets =
                               Put(@, target, [hash |-> assets[i].hash,
                                               id |-> <<"rbxassetid://", i, 0>>,
                                               local_path |-> <<>>])]
              /\ uploaded' = uploaded
              /\ UNCHANGED <<files, now, state_file, pc_sync, force_sync, target,
                             prev_state, ok_count, result, passes, steps_left,
                             wrote, prev_pass, timestamp, fs_during, fs_between,
                             fs_idle>>
    /\ disk' = disk
    /\ generated' = generated
    /\ UNCHANGED <<entries, codegens, error_count, tasks>>
    /\ UNCHANGED <<watchVars, histVars, treeVars, configVars>>

\* sync.rs:577-597: one of the remote strategy's per-asset futures completes,
\* in any order
RobloxSyncAsset ==
    /\ pc_sync = "sync"
    /\ TargetType(target) = "Roblox"
    /\ \E i \in todo, ok \in BOOLEAN :
         IF ok
         THEN /\ SucceedAsset(i, [hash |-> assets[i].hash,
                                  id |-> <<"rbxassetid://", i, assets[i].contents>>,
                                  local_path |-> <<>>])
              /\ uploaded' = Put(uploaded, <<i, target>>, read_file(i))
         ELSE FailAsset(i) /\ assets' = assets /\ uploaded' = uploaded
    /\ disk' = disk
    /\ generated' = generated
    /\ UNCHANGED <<entries, codegens, error_count, tasks>>
    /\ UNCHANGED <<watchVars, histVars, treeVars, configVars>>

\* NewState built from the targets read at discovery, not the updated ones
NewStateStale ==
    [i \in DOMAIN assets |->
       [targets |-> IF i \in DOMAIN prev_state THEN prev_state[i].targets ELSE <<>>]]

\* NewState that keeps the targets of the synced assets only
NewStateOnlySynced ==
    [i \in DOMAIN assets |->
       [targets |-> IF i \in attempted \ failed THEN assets[i].targets ELSE <<>>]]

\* NewState that carries over the records of the assets not discovered
NewStateKeepsUndiscovered ==
    [i \in DOMAIN assets \cup DOMAIN prev_state |->
       [targets |-> IF i \in DOMAIN assets THEN assets[i].targets
                    ELSE prev_state[i].targets]]

\* sync.rs:311-327: the State built from the session's assets
NewState == [i \in DOMAIN assets |-> [targets |-> assets[i].targets]]

\* codegen/mod.rs:118-170  generate_all: the results it can return, TRUE for
\* Err(SomeFailed); an output fails when an asset of the state has no record
\* under the target's key (codegen/mod.rs:60-66) or its file cannot be written
\* (codegen/mod.rs:167)
generate_all(state) ==
    IF codegens = 0 THEN {FALSE}
    ELSE IF \E i \in DOMAIN state : target \notin DOMAIN state[i].targets
         THEN {TRUE}
         ELSE BOOLEAN

\* WriteState whose result looks at the strategy's err_count, not at the errors
WriteStateCountsSyncErrorsOnly ==
    /\ pc_sync = "sync"
    /\ todo = {}
    /\ \E ok \in BOOLEAN :
         IF ok
         THEN /\ write_for_config(NewState)
              /\ wrote' = TRUE
              /\ generated' = 1
              /\ \E codegen_failed \in generate_all(NewState) :
                   errors' = errors + (IF codegen_failed THEN 1 ELSE 0)
              /\ result' = IF err_count = 0 THEN "Ok" ELSE "HadErrors"
              /\ error_count' = err_count
         ELSE /\ state_file' = state_file
              /\ wrote' = FALSE
              /\ generated' = 0
              /\ errors' = errors
              /\ result' = "State"
              /\ error_count' = 0
    /\ pc_sync' = "done"
    /\ uploaded' = uploaded
    /\ prev_state' = <<>>
    /\ assets' = <<>>
    /\ timestamp' = 0
    /\ tasks' = <<>>
    /\ UNCHANGED <<files, disk, now, force_sync, target, todo, ok_count,
                   err_count, passes, steps_left, attempted, failed, prev_pass,
                   fs_during, fs_between, fs_idle, entries, codegens>>
    /\ UNCHANGED <<watchVars, histVars, treeVars, configVars>>

\* WriteState that raises the state file's error like an asset's and goes on
WriteStateRaisesSoftly ==
    /\ pc_sync = "sync"
    /\ todo = {}
    /\ \E ok \in BOOLEAN :
         IF ok
         THEN /\ write_for_config(NewState)
              /\ wrote' = TRUE
              /\ generated' = 1
              /\ \E codegen_failed \in generate_all(NewState) :
                   errors' = errors + (IF codegen_failed THEN 1 ELSE 0)
              /\ result' = IF errors' = 0 THEN "Ok" ELSE "HadErrors"
              /\ error_count' = errors'
         ELSE /\ state_file' = state_file
              /\ wrote' = FALSE
              /\ generated' = 1
              /\ errors' = errors + 1
              /\ result' = "HadErrors"
              /\ error_count' = errors + 1
    /\ pc_sync' = "done"
    /\ uploaded' = uploaded
    /\ prev_state' = <<>>
    /\ assets' = <<>>
    /\ timestamp' = 0
    /\ tasks' = <<>>
    /\ UNCHANGED <<files, disk, now, force_sync, target, todo, ok_count,
                   err_count, passes, steps_left, attempted, failed, prev_pass,
                   fs_during, fs_between, fs_idle, entries, codegens>>
    /\ UNCHANGED <<watchVars, histVars, treeVars, configVars>>

\* sync.rs:115-132 and sync.rs:311-333: the strategy has returned; write_state,
\* generate_all, then the result of sync_with_config; a state file that cannot
\* be written returns the error
WriteState ==
    /\ pc_sync = "sync"
    /\ todo = {}
    /\ \E ok \in BOOLEAN :
         IF ok
         THEN /\ write_for_config(NewState)
              /\ wrote' = TRUE
              /\ generated' = 1
              /\ \E codegen_failed \in generate_all(NewState) :
                   errors' = errors + (IF codegen_failed THEN 1 ELSE 0)
              /\ result' = IF errors' = 0 THEN "Ok" ELSE "HadErrors"
              /\ error_count' = errors'
         ELSE /\ state_file' = state_file
              /\ wrote' = FALSE
              /\ generated' = 0
              /\ errors' = errors
              /\ result' = "State"
              /\ error_count' = 0
    /\ pc_sync' = "done"
    /\ uploaded' = uploaded
    /\ prev_state' = <<>>
    /\ assets' = <<>>
    /\ timestamp' = 0
    /\ tasks' = <<>>
    /\ UNCHANGED <<files, disk, now, force_sync, target, todo, ok_count,
                   err_count, passes, steps_left, attempted, failed, prev_pass,
                   fs_during, fs_between, fs_idle, entries, codegens>>
    /\ UNCHANGED <<watchVars, histVars, treeVars, configVars>>

SyncNext ==
    \/ ModifyFile
    \/ DeleteArtifact
    \/ SyncBegin
    \/ LocalSyncAsset
    \/ RobloxSyncAsset
    \/ WriteState

Init == WatchInit /\ SyncInit0

Next ==
    \/ WatcherSetup
    \/ NotifyEvent
    \/ NotifyError
    \/ Tick
    \/ CtrlC
    \/ DebounceRecv
    \/ DebounceTimeout
    \/ SchedRecv
    \/ SchedClosed
    \/ SyncTaskFinish
    \/ SchedJoin
    \/ SchedCtrlC

Spec == Init /\ [][Next]_vars

\* the runtime polls every ready task and select! picks among its ready branches
\* at random; time passes; every sync pass terminates
FairSpec ==
    /\ Spec
    /\ WF_vars(WatcherSetup)
    /\ WF_vars(Tick)
    /\ WF_vars(DebounceRecv)
    /\ WF_vars(DebounceTimeout)
    /\ WF_vars(SchedRecv)
    /\ WF_vars(SchedClosed)
    /\ WF_vars(SyncTaskFinish)
    /\ WF_vars(SchedJoin)
    /\ WF_vars(SchedCtrlC)

\* sync passes for one of the configured targets run one after the other on a
\* project whose state file is empty or was left by an earlier version
SyncInit ==
    /\ WatchInit
    /\ state_file \in InitialStates
    /\ target \in TargetKeys
    /\ files = [i \in Idents |-> 1]
    /\ disk = {}
    /\ now = 0
    /\ pc_sync = "idle"
    /\ force_sync = FALSE
    /\ prev_state = <<>>
    /\ assets = <<>>
    /\ errors = 0
    /\ todo = {}
    /\ ok_count = 0
    /\ err_count = 0
    /\ result = "none"
    /\ passes = 0
    /\ steps_left = MaxSteps
    /\ attempted = {}
    /\ failed = {}
    /\ wrote = FALSE
    /\ prev_pass = <<>>
    /\ timestamp = 0
    /\ fs_during = <<>>
    /\ fs_between = <<>>
    /\ fs_idle = <<>>
    /\ entries = [i \in Idents |-> "file"]
    /\ codegens = 0
    /\ error_count = 0
    /\ tasks = <<>>
    /\ tree_in = <<>>
    /\ tree_out = <<>>
    /\ uploaded = <<>>
    /\ generated = 0
    /\ config_file = DefaultConfig
    /\ requested = target
    /\ call = "sync_with_config"

SyncSpec == SyncInit /\ [][SyncNext]_vars

(***************************************************************************)
(* One pass over a project in any condition.                               *)
(***************************************************************************)
\* sync.rs:397-407 and sync.rs:541-548: a State in which every asset has a
\* record under both target keys for bytes whose hash is that of `content`
SyncedState(content) ==
    [i \in Idents |->
       [targets |-> [k \in TargetKeys |->
           IF TargetType(k) = "Local"
           THEN [hash |-> generate_asset_hash(content),
                 id |-> <<"rbxasset://", with_cache_bust(i, 0)>>,
                 local_path |-> <<with_cache_bust(i, 0)>>]
           ELSE [hash |-> generate_asset_hash(content),
                 id |-> <<"rbxassetid://", i, content>>,
                 local_path |-> <<>>]]]]

\* the states a project can have been left in: none, one of an earlier
\* version, one that matches the files, one recorded for other bytes
PassStates == {<<>>, LegacyState, SyncedState(1), SyncedState(MaxContent)}

\* one pass for one of the targets: any of the states, any outcome of the walk
\* for each path, any of the earlier output files present, with or without a
\* codegen output configured
PassInit ==
    /\ WatchInit
    /\ state_file \in PassStates
    /\ target \in TargetKeys
    /\ entries \in [Idents -> {"file", "none", "error"}]
    /\ disk \in SUBSET {with_cache_bust(i, 0) : i \in Idents}
    /\ codegens \in 0..1
    /\ steps_left = 1
    /\ files = [i \in Idents |-> 1]
    /\ now = 0
    /\ pc_sync = "idle"
    /\ force_sync = FALSE
    /\ prev_state = <<>>
    /\ assets = <<>>
    /\ errors = 0
    /\ todo = {}
    /\ ok_count = 0
    /\ err_count = 0
    /\ result = "none"
    /\ error_count = 0
    /\ passes = 0
    /\ attempted = {}
    /\ failed = {}
    /\ wrote = FALSE
    /\ prev_pass = <<>>
    /\ timestamp = 0
    /\ fs_during = <<>>
    /\ fs_between = <<>>
    /\ fs_idle = <<>>
    /\ tasks = <<>>
    /\ tree_in = <<>>
    /\ tree_out = <<>>
    /\ uploaded = <<>>
    /\ generated = 0
    /\ config_file = DefaultConfig
    /\ requested = target
    /\ call = "sync_with_config"

PassNext ==
    \/ SyncBegin
    \/ LocalSyncAsset
    \/ RobloxSyncAsset
    \/ WriteState

PassSpec == PassInit /\ [][PassNext]_vars

(***************************************************************************)
(* Part III: RobloxSyncStrategy::perform_sync, sync.rs:445-600, one step   *)
(* per response of the backend.                                            *)
(***************************************************************************)
\* sync.rs:521-527: the decal types, whose id is mapped to a texture id; the
\* odd idents are .png decals, the even ones are of another type
IsDecal(i) == i % 2 = 1

\* preprocess/mod.rs:14-36: only a DecalPng is decoded and encoded again
CanFailPreprocess(i) == IsDecal(i)

\* sync.rs:499  2_u64.pow(get_idx)
RECURSIVE Pow2(_)
Pow2(n) == IF n = 0 THEN 1 ELSE 2 * Pow2(n - 1)

\* the future of an asset when it is first polled (sync.rs:473-478)
NewTask ==
    [pc |-> "create", create_idx |-> 0, get_idx |-> 0, get_failures |-> 0,
     remap_idx |-> 0, asset_id |-> <<>>, error |-> "none",
     \* history of the task: the create requests it sent, the seconds it slept
     \* before its last request, the polls answered by an error, and the step
     \* at which it returned
     creates |-> 0, waited |-> 0, poll_errs |-> 0, phase |-> "none",
     \* the bytes of the create request that succeeded
     delivered |-> <<>>]

\* the answers of the backend to a create, a poll and a texture lookup
CreateResponses == {"operation", "error", "unexpected"}
PollResponses == {"done", "not_done", "error"}
TextureResponses == {"image", "error"}

\* sync.rs:638-673  roblox_get_asset: the request's error is passed on by `?`
\* and any answer that was read is taken to hold the asset id; the answer for
\* an operation that is not done has no `response` and cannot be read
\* (sync.rs:655-657), and nothing returns UploadNotDone (sync.rs:659-670)
roblox_get_asset(i, response) ==
    IF response = "done" THEN <<"Ok", <<"asset", i>> >>
    ELSE <<"Err", "RbxCloud">>

\* TargetState recorded with the hash of other bytes than the asset's
RemoteTargetStateOtherHash(i, final_id) ==
    [hash |-> generate_asset_hash(assets[i].contents + 1),
     id |-> <<"rbxassetid://", final_id>>,
     local_path |-> <<>>]

\* sync.rs:541-548: the TargetState the remote strategy inserts
RemoteTargetState(i, final_id) ==
    [hash |-> assets[i].hash,
     id |-> <<"rbxassetid://", final_id>>,
     local_path |-> <<>>]

\* a future that has returned is dropped with its local variables; of one
\* that failed the history keeps the step that failed and the polls answered
\* by an error
Returned(task, pc_, error) ==
    IF pc_ = "failed"
    THEN [NewTask EXCEPT !.pc = pc_, !.error = error, !.phase = task.pc,
                         !.poll_errs = task.poll_errs]
    ELSE [NewTask EXCEPT !.pc = pc_, !.error = error]

\* the future returns Ok(()) after the insert (sync.rs:541-550) and the
\* strategy's loop counts it (sync.rs:589-591)
TaskResolve(i, task, final_id) ==
    /\ tasks' = Put(tasks, i, Returned(task, "resolved", "none"))
    /\ SucceedAsset(i, RemoteTargetState(i, final_id))
    /\ uploaded' = Put(uploaded, <<i, target>>, task.delivered)
    /\ generated' = generated
    /\ disk' = disk
    /\ UNCHANGED <<entries, codegens, error_count>>

\* the future returns Err(error) and the strategy's loop raises it
\* (sync.rs:592-595)
TaskFail(i, task, error) ==
    /\ tasks' = Put(tasks, i, Returned(task, "failed", error))
    /\ FailAsset(i)
    /\ assets' = assets
    /\ UNCHANGED passHist
    /\ UNCHANGED <<entries, codegens, error_count>>

\* the future goes on
TaskContinue(i, task) ==
    /\ tasks' = Put(tasks, i, task)
    /\ UNCHANGED passHist
    /\ UNCHANGED syncVars

\* the future panics and the pass with it
TaskPanic(i, task) ==
    /\ tasks' = Put(tasks, i, task)
    /\ pc_sync' = "panicked"
    /\ UNCHANGED passHist
    /\ UNCHANGED <<files, disk, now, state_file, force_sync, target, prev_state,
                   assets, errors, todo, ok_count, err_count, result, passes,
                   steps_left, attempted, failed, wrote, prev_pass, timestamp,
                   fs_during, fs_between, fs_idle, entries, codegens,
                   error_count>>

\* sync.rs:473-475: the future of a selected asset is polled for the first
\* time and preprocesses the asset
TaskPreprocess(i) ==
    /\ pc_sync = "sync"
    /\ TargetType(target) = "Roblox"
    /\ i \in todo
    /\ i \notin DOMAIN tasks
    /\ \E ok \in BOOLEAN :
         IF ok
         THEN TaskContinue(i, NewTask)
         ELSE /\ CanFailPreprocess(i)
              /\ TaskFail(i, [NewTask EXCEPT !.pc = "preprocess"], "Preprocess")
    /\ UNCHANGED <<watchVars, histVars, treeVars, configVars>>

\* sync.rs:480-482: the sleep before a create is tried again
TaskCreateSleep(i) ==
    /\ pc_sync = "sync"
    /\ i \in todo
    /\ i \in DOMAIN tasks
    /\ tasks[i].pc = "retry"
    /\ TaskContinue(i, [tasks[i] EXCEPT !.pc = "create",
                                        !.waited = CreateRetryDelay])
    /\ UNCHANGED <<watchVars, histVars, treeVars, configVars>>

\* TaskCreate that tries again at once and gives up after one failure more
TaskCreateEager(i) ==
    /\ pc_sync = "sync"
    /\ i \in todo
    /\ i \in DOMAIN tasks
    /\ tasks[i].pc = "create"
    /\ LET sent == [tasks[i] EXCEPT !.creates = @ + 1]
       IN \E response \in CreateResponses :
            IF response = "operation"
            THEN TaskContinue(i, [sent EXCEPT !.pc = "poll", !.get_idx = 0,
                                              !.get_failures = 0,
                                              !.delivered = read_file(i)])
            ELSE IF response = "unexpected"
            THEN TaskPanic(i, sent)
            ELSE LET after == [sent EXCEPT !.create_idx = @ + 1]
                 IN IF after.create_idx > max_create_failures
                    THEN TaskFail(i, after, "UploadFailed")
                    ELSE TaskContinue(i, after)
    /\ UNCHANGED <<watchVars, histVars, treeVars, configVars>>

\* sync.rs:478-491, 574-581 and sync.rs:602-637: one create request of the
\* create loop and its answer.  An operation path without the "operations/"
\* prefix panics (sync.rs:630-632).
TaskCreate(i) ==
    /\ pc_sync = "sync"
    /\ i \in todo
    /\ i \in DOMAIN tasks
    /\ tasks[i].pc = "create"
    /\ LET sent == [tasks[i] EXCEPT !.creates = @ + 1]
       IN \E response \in CreateResponses :
            IF response = "operation"
            THEN TaskContinue(i, [sent EXCEPT !.pc = "poll", !.get_idx = 0,
                                              !.get_failures = 0,
                                              !.delivered = read_file(i)])
            ELSE IF response = "unexpected"
            THEN TaskPanic(i, sent)
            ELSE LET after == [sent EXCEPT !.create_idx = @ + 1,
                                           !.pc = "retry", !.waited = 0]
                 IN IF after.create_idx = max_create_failures
                    THEN TaskFail(i, sent, "UploadFailed")
                    ELSE TaskContinue(i, after)
    /\ UNCHANGED <<watchVars, histVars, treeVars, configVars>>

\* TaskPoll that creates the asset anew when its polls have failed
TaskPollRecreates(i) ==
    /\ pc_sync = "sync"
    /\ i \in todo
    /\ i \in DOMAIN tasks
    /\ tasks[i].pc = "poll"
    /\ \E response \in PollResponses :
         LET polled == [tasks[i] EXCEPT
                          !.get_idx = @ + 1,
                          !.waited = Pow2(tasks[i].get_idx + 1),
                          !.poll_errs = @ + (IF response = "error" THEN 1 ELSE 0)]
             answer == roblox_get_asset(i, response)
         IN IF answer[1] = "Ok"
            THEN IF IsDecal(i)
                 THEN TaskContinue(i, [polled EXCEPT !.pc = "remap",
                                                     !.asset_id = answer[2]])
                 ELSE TaskResolve(i, [polled EXCEPT !.asset_id = answer[2]],
                                  answer[2])
            ELSE IF answer[2] = "UploadNotDone"
            THEN TaskContinue(i, polled)
            ELSE LET after == [polled EXCEPT !.get_failures = @ + 1]
                 IN IF after.get_failures >= max_get_failures
                    THEN TaskContinue(i, [after EXCEPT !.pc = "create"])
                    ELSE TaskContinue(i, after)
    /\ UNCHANGED <<watchVars, histVars, treeVars, configVars>>

\* sync.rs:496-572: one turn of the poll loop: the sleep of 2^get_idx seconds,
\* the request and its answer
TaskPoll(i) ==
    /\ pc_sync = "sync"
    /\ i \in todo
    /\ i \in DOMAIN tasks
    /\ tasks[i].pc = "poll"
    /\ \E response \in PollResponses :
         LET polled == [tasks[i] EXCEPT
                          !.get_idx = @ + 1,
                          !.waited = Pow2(tasks[i].get_idx + 1),
                          !.poll_errs = @ + (IF response = "error" THEN 1 ELSE 0)]
             answer == roblox_get_asset(i, response)
         IN IF answer[1] = "Ok"
            THEN IF IsDecal(i)
                 THEN TaskContinue(i, [polled EXCEPT !.pc = "remap",
                                                     !.asset_id = answer[2]])
                 ELSE TaskResolve(i, [polled EXCEPT !.asset_id = answer[2]],
                                  answer[2])
            ELSE IF answer[2] = "UploadNotDone"
            THEN TaskContinue(i, polled)
            ELSE LET after == [polled EXCEPT !.get_failures = @ + 1]
                 IN IF after.get_failures >= max_get_failures
                    THEN TaskFail(i, after, "UploadFailed")
                    ELSE TaskContinue(i, after)
    /\ UNCHANGED <<watchVars, histVars, treeVars, configVars>>

\* TaskRemap that gives up one failed lookup later
TaskRemapOnceMore(i) ==
    /\ pc_sync = "sync"
    /\ i \in todo
    /\ i \in DOMAIN tasks
    /\ tasks[i].pc = "remap"
    /\ \E response \in TextureResponses :
         IF response = "image"
         THEN TaskResolve(i, tasks[i], <<"image", i>>)
         ELSE LET after == [tasks[i] EXCEPT !.remap_idx = @ + 1]
              IN IF after.remap_idx = max_textureid_failures + 1
                 THEN TaskFail(i, after, "RobloxApi")
                 ELSE TaskContinue(i, after)
    /\ UNCHANGED <<watchVars, histVars, treeVars, configVars>>

\* sync.rs:530 and sync.rs:674-689: one lookup of get_texture_with_retry
TaskRemap(i) ==
    /\ pc_sync = "sync"
    /\ i \in todo
    /\ i \in DOMAIN tasks
    /\ tasks[i].pc = "remap"
    /\ \E response \in TextureResponses :
         IF response = "image"
         THEN TaskResolve(i, tasks[i], <<"image", i>>)
         ELSE LET after == [tasks[i] EXCEPT !.remap_idx = @ + 1]
              IN IF after.remap_idx = max_textureid_failures
                 THEN TaskFail(i, after, "RobloxApi")
                 ELSE TaskContinue(i, after)
    /\ UNCHANGED <<watchVars, histVars, treeVars, configVars>>

\* a State in which only the first asset has been synced
FirstSynced == [i \in {1} |-> SyncedState(1)[i]]

\* a remote pass over a project of which nothing or only the first asset has
\* been synced
UploadInit ==
    /\ WatchInit
    /\ state_file \in {<<>>, FirstSynced}
    /\ target = "roblox"
    /\ files = [i \in Idents |-> 1]
    /\ entries = [i \in Idents |-> "file"]
    /\ disk = {}
    /\ codegens = 0
    /\ steps_left = 1
    /\ now = 0
    /\ pc_sync = "idle"
    /\ force_sync = FALSE
    /\ prev_state = <<>>
    /\ assets = <<>>
    /\ errors = 0
    /\ todo = {}
    /\ ok_count = 0
    /\ err_count = 0
    /\ result = "none"
    /\ error_count = 0
    /\ passes = 0
    /\ attempted = {}
    /\ failed = {}
    /\ wrote = FALSE
    /\ prev_pass = <<>>
    /\ timestamp = 0
    /\ fs_during = <<>>
    /\ fs_between = <<>>
    /\ fs_idle = <<>>
    /\ tasks = <<>>
    /\ tree_in = <<>>
    /\ tree_out = <<>>
    /\ uploaded = <<>>
    /\ generated = 0
    /\ config_file = DefaultConfig
    /\ requested = target
    /\ call = "sync_with_config"

UploadNext ==
    \/ SyncBegin
    \/ \E i \in Idents : TaskPreprocess(i)
    \/ \E i \in Idents : TaskCreateSleep(i)
    \/ \E i \in Idents : TaskCreate(i)
    \/ \E i \in Idents : TaskPoll(i)
    \/ \E i \in Idents : TaskRemap(i)
    \/ WriteState

UploadSpec == UploadInit /\ [][UploadNext]_vars

\* the runtime polls every future that can go on, every request is answered
\* and every sleep ends (sync.rs:586-599 awaits the futures in turn)
FairUploadSpec ==
    /\ UploadSpec
    /\ WF_vars(SyncBegin)
    /\ \A i \in Idents : WF_vars(TaskPreprocess(i))
    /\ \A i \in Idents : WF_vars(TaskCreateSleep(i))
    /\ \A i \in Idents : WF_vars(TaskCreate(i))
    /\ \A i \in Idents : WF_vars(TaskPoll(i))
    /\ \A i \in Idents : WF_vars(TaskRemap(i))
    /\ WF_vars(WriteState)

(***************************************************************************)
(* Part IV: codegen::generate_tree, codegen/mod.rs:30-104, applied to a    *)
(* State and a CodegenConfig.                                              *)
(*                                                                         *)
(* A path is the sequence of its components and a component the pair of    *)
(* its name and its extension: "a/b.png" is << <<"a", "">>, <<"b", "png">> >>. *)
(***************************************************************************)
\* the names of directories and files, one character each, in the order of
\* their character codes
Names == <<"a", "b", "x">>

NameSet == {Names[k] : k \in DOMAIN Names}

Rank(n) == CHOOSE k \in DOMAIN Names : Names[k] = n

Dir(n) == <<n, "">>

File(n) == <<n, "png">>

\* the directories at most d levels below the project's root
RECURSIVE DirPaths(_)
DirPaths(d) ==
    IF d = 0 THEN {<<>>}
    ELSE {<<>>} \cup {<<Dir(n)>> \o p : n \in NameSet, p \in DirPaths(d - 1)}

\* asset_ident.rs:17-37: the idents of the files of supported type
TreeIdents == {p \o <<File(n)>> : p \in DirPaths(MaxDepth - 1), n \in NameSet}

\* asset_ident.rs:11  derive(Ord) on the ident's string: the first character
\* that differs decides, and '.' sorts before '/' and both before a name
RECURSIVE IdentLess(_, _)
IdentLess(p, q) ==
    IF p = <<>> THEN q # <<>>
    ELSE IF q = <<>> THEN FALSE
    ELSE IF Head(p) = Head(q) THEN IdentLess(Tail(p), Tail(q))
    ELSE IF Head(p)[1] # Head(q)[1] THEN Rank(Head(p)[1]) < Rank(Head(q)[1])
    ELSE Head(p)[2] # ""

\* the order in which `for (ident, asset) in &state.assets` visits the idents
RECURSIVE SortedIdents(_)
SortedIdents(S) ==
    IF S = {} THEN <<>>
    ELSE LET first == CHOOSE p \in S : \A q \in S \ {p} : IdentLess(p, q)
         IN <<first>> \o SortedIdents(S \ {first})

\* Path::strip_prefix
path_strip_prefix(path, prefix) ==
    IF Len(prefix) <= Len(path) /\ SubSeq(path, 1, Len(prefix)) = prefix
    THEN <<"Ok", SubSeq(path, Len(prefix) + 1, Len(path))>>
    ELSE <<"Err">>

\* PathBuf::set_extension("")
set_extension_empty(path) ==
    IF path = <<>> THEN path
    ELSE [path EXCEPT ![Len(path)] = <<@[1], "">>]

\* codegen/mod.rs:30-50
transform_ident(ident, config) ==
    LET stripped ==
            IF config.strip_prefix # <<>>
            THEN LET t == path_strip_prefix(ident, config.strip_prefix[1])
                 IN IF t[1] = "Ok" THEN t[2] ELSE ident
            ELSE ident
    IN IF config.strip_extension THEN set_extension_empty(stripped) ELSE stripped

EmptyObject == [kind |-> "Object", obj |-> <<>>]

TreeError(e) == [kind |-> "Err", error |-> e]

\* codegen/mod.rs:78-100: walk down `parts` from `head`, creating the objects
\* that are missing, and insert the id under `key`; HashMap::insert replaces
\* the value the key had
RECURSIVE insert(_, _, _, _)
insert(head, parts, key, id) ==
    IF head.kind = "Id" THEN TreeError("TreeStructure")
    ELSE IF parts = <<>>
    THEN [kind |-> "Object", obj |-> Put(head.obj, key, [kind |-> "Id", id |-> id])]
    ELSE LET part == <<Head(parts)>>
             child == IF part \in DOMAIN head.obj THEN head.obj[part] ELSE EmptyObject
             below == insert(child, Tail(parts), key, id)
         IN IF below.kind = "Err" THEN below
            ELSE [kind |-> "Object", obj |-> Put(head.obj, part, below)]

\* codegen/mod.rs:59-101: the loop's turns for the idents still to visit
RECURSIVE tree_loop(_, _, _, _, _)
tree_loop(root, idents, state, config, target_key) ==
    IF idents = <<>> THEN root
    ELSE LET ident == Head(idents)
             ident_string == transform_ident(ident, config)
             parts == IF config.flatten THEN <<>>
                      ELSE SubSeq(ident_string, 1, Len(ident_string) - 1)
             key == IF config.flatten THEN ident_string
                    ELSE <<ident_string[Len(ident_string)]>>
         IN IF target_key \notin DOMAIN state[ident].targets
            THEN TreeError("MissingAsset")
            ELSE LET after == insert(root, parts, key,
                                     state[ident].targets[target_key].id)
                 IN IF after.kind = "Err" THEN after
                    ELSE tree_loop(after, Tail(idents), state, config, target_key)

\* codegen/mod.rs:52-104
generate_tree(state, config, target_key) ==
    tree_loop(EmptyObject, SortedIdents(DOMAIN state), state, config, target_key)

\* config.rs:96-113  CodegenConfig: strip_prefix is None or the directory "x"
CodegenConfigs ==
    [strip_prefix : {<<>>, << <<Dir("x")>> >>},
     strip_extension : BOOLEAN,
     flatten : BOOLEAN]

\* a State whose assets are the idents S, all but those of `missing` with a
\* record for the target
TreeState(S, missing) ==
    [i \in S |->
       [targets |-> IF i \in missing THEN <<>>
                    ELSE Put(<<>>, "roblox",
                             [hash |-> generate_asset_hash(1),
                              id |-> <<"rbxassetid://", i>>,
                              local_path |-> <<>>])]]

NoTree == [kind |-> "none"]

\* the sets of at most k idents
RECURSIVE IdentSets(_)
IdentSets(k) ==
    IF k = 0 THEN {{}}
    ELSE LET smaller == IdentSets(k - 1)
         IN smaller \cup {S \cup {i} : S \in smaller, i \in TreeIdents}

\* generate_tree is handed any State of at most MaxIdents assets, at most one
\* of them without a record for the target, and any CodegenConfig
TreeInit ==
    /\ WatchInit
    /\ \E S \in IdentSets(MaxIdents) :
         \E missing \in {{}} \cup {{i} : i \in S} :
           \E config \in CodegenConfigs :
              tree_in = [state |-> TreeState(S, missing), config |-> config,
                         target |-> "roblox"]
    /\ tree_out = NoTree
    /\ uploaded = <<>>
    /\ generated = 0
    /\ config_file = DefaultConfig
    /\ requested = "roblox"
    /\ call = "sync_with_config"
    /\ files = [i \in Idents |-> 1]
    /\ disk = {}
    /\ now = 0
    /\ state_file = <<>>
    /\ pc_sync = "idle"
    /\ force_sync = FALSE
    /\ target = "roblox"
    /\ prev_state = <<>>
    /\ assets = <<>>
    /\ errors = 0
    /\ todo = {}
    /\ ok_count = 0
    /\ err_count = 0
    /\ result = "none"
    /\ passes = 0
    /\ steps_left = 0
    /\ attempted = {}
    /\ failed = {}
    /\ wrote = FALSE
    /\ prev_pass = <<>>
    /\ timestamp = 0
    /\ fs_during = <<>>
    /\ fs_between = <<>>
    /\ fs_idle = <<>>
    /\ entries = [i \in Idents |-> "file"]
    /\ codegens = 1
    /\ error_count = 0
    /\ tasks = <<>>

\* codegen/mod.rs:152  generate calls generate_tree
TreeApply ==
    /\ tree_out = NoTree
    /\ tree_out' = generate_tree(tree_in.state, tree_in.config, tree_in.target)
    /\ tree_in' = tree_in
    /\ UNCHANGED <<watchVars, histVars, syncVars, uploadVars, passHist, configVars>>

TreeNext == TreeApply

TreeSpec == TreeInit /\ [][TreeNext]_vars

(***************************************************************************)
(* Properties of the watch scheduler.                                      *)
(***************************************************************************)
\* the scheduler handles a sync-requested signal
RecvOkStep ==
    /\ debounced_rx # <<>>
    /\ Head(debounced_rx) = "Ok"
    /\ debounced_rx' = Tail(debounced_rx)

\* the scheduler joins the finished sync task
JoinStep == sync_task \in Finished /\ sync_task' # sync_task

\* watch mode is shutting down or never got going
Stopping == sigint \/ rx_closed \/ pc \in {"failed", "returned"}

OkQueued == \E k \in 1..Len(notify_rx) : notify_rx[k] = "Ok"

\* C1: at most one sync pass is in flight at any time.  A sync-requested signal
\* handled while the scheduler holds no sync task starts a pass in that very
\* step; one handled while it holds a task only sets the run-again flag and
\* starts nothing.
C1_SingleFlight ==
    [][ /\ running' <= 1
        /\ (RecvOkStep /\ sync_task = "None")
             => (sync_task' = "Pending" /\ running' = running + 1
                 /\ started' = started + 1)
        /\ (RecvOkStep /\ sync_task # "None")
             => (sync_again' /\ running' = running /\ started' = started
                 /\ sync_task' = sync_task) ]_vars

\* a signal arrived during the running pass and no second pass was started
C1_Witness == running = 1 /\ sync_task = "Pending" /\ sync_again /\ started = 1

\* C2: whenever the scheduler joins a finished pass, whatever its outcome: if the
\* run-again flag is set it clears the flag and starts a new pass in that step,
\* otherwise it goes idle.
C2_RerunOnCompletion ==
    [][ JoinStep =>
          IF sync_again
          THEN ~sync_again' /\ sync_task' = "Pending" /\ started' = started + 1
          ELSE ~sync_again' /\ sync_task' = "None" /\ started' = started ]_vars

\* C3: every change event delivered to the watcher is eventually followed by the
\* start of a sync pass (while watch mode is not shutting down).
C3_NoChangeDropped == (unserved /\ ~Stopping) ~> (~unserved \/ Stopping)

\* C4: when a pass completes during which one or more sync-requested signals
\* arrived, exactly one pass is started at its completion, and none when no
\* signal arrived.
C4_OneMorePass ==
    [][ JoinStep =>
          started' = started + (IF sigs_during >= 1 THEN 1 ELSE 0) ]_vars

\* C5: a burst of change events yields exactly one sync-requested signal: a signal
\* is emitted only when a full quiet period has passed since the last change
\* event and every delivered event has been taken in; it covers at least one
\* change not signalled before, so no second signal follows without a new event;
\* the debounce task keeps an unsignalled change pending; and every change is
\* eventually signalled (while watch mode is not shutting down).
C5_DebounceOneSignal ==
    /\ [][ signals' # signals =>
             /\ signals' = signals + 1
             /\ since_event >= Duration
             /\ notify_rx = <<>>
             /\ unsignalled /\ ~unsignalled' ]_vars
    /\ [](debounce = "running" => (unsignalled <=> (changed \/ OkQueued)))
    /\ ((unsignalled /\ ~Stopping) ~> (~unsignalled \/ Stopping))

\* a burst of several events produced one signal
C5_Witness == delivered = MaxEvents /\ signals = 1 /\ ~unsignalled

\* C6: watch() does not return while a sync pass is still in flight.
C6_ShutdownWaitsForPass == pc = "returned" => running = 0

\* C7: once the watchers are set up, exactly one initial pass is started without
\* any filesystem event: watch() never returns from its loop without having
\* started a pass, no second pass starts before a change event was delivered, and
\* the initial pass is eventually started.
C7_InitialSyncOnce ==
    /\ [](pc = "returned" => started >= 1)
    /\ [](delivered = 0 => started <= 1)
    /\ (pc = "loop" ~> started >= 1)

\* an early ctrl-c: the initial pass was still started, and only that one
C7_Witness == pc = "returned" /\ started = 1 /\ delivered = 0

(***************************************************************************)
(* Properties of a sync pass.                                              *)
(***************************************************************************)
\* the rule of the diff engine for asset i and the pass's target
ShouldSync(i) ==
    \/ force_sync
    \/ i \notin DOMAIN prev_state
    \/ target \notin DOMAIN prev_state[i].targets
    \/ prev_state[i].targets[target].hash # assets[i].hash
    \/ /\ TargetType(target) = "Local"
       /\ \/ prev_state[i].targets[target].local_path = <<>>
          \/ prev_state[i].targets[target].local_path[1] \notin disk

\* the pass before the current one
Prev == prev_pass[1]

\* the current pass is over and follows an earlier pass for the same target
SecondPassDone ==
    /\ pc_sync = "done"
    /\ prev_pass # <<>>
    /\ ~force_sync
    /\ Prev.target = target

\* C8: when the strategy's iterator reaches asset a, a is selected for sync
\* exactly when force is set, or the previous state has no record for a or none
\* under the target's key, or the recorded hash differs from a's hash, or the
\* target is a local one and the recorded local_path is absent or does not
\* exist; otherwise a is skipped.  A remote target never applies the
\* local_path rule.
C8_NeedsSyncRule ==
    /\ [][ TargetType(target) = "Local"
           => \A i \in todo \ todo' : (i \in attempted') <=> ShouldSync(i) ]_vars
    /\ []( (pc_sync = "sync" /\ TargetType(target) = "Roblox")
           => \A i \in Idents : (i \in todo \cup attempted) <=> ShouldSync(i) )

\* a non-forced local pass resyncs an unchanged asset whose output file is gone
\* and has skipped another asset
C8_Witness ==
    /\ pc_sync = "sync"
    /\ ~force_sync
    /\ TargetType(target) = "Local"
    /\ \E i \in attempted :
         /\ i \in DOMAIN prev_state
         /\ target \in DOMAIN prev_state[i].targets
         /\ prev_state[i].targets[target].hash = assets[i].hash
         /\ prev_state[i].targets[target].local_path # <<>>
    /\ \E j \in Idents : j \notin attempted /\ j \notin todo

\* C9 as stated: a non-forced pass that follows a non-forced pass for the same
\* target, with no filesystem change since the first pass started, attempts no
\* sync at all.
C9_Idempotent ==
    ( /\ SecondPassDone
      /\ ~Prev.force
      /\ Prev.fs_during = <<>> /\ fs_between = <<>> /\ fs_during = <<>> )
    => attempted = {}

\* C9 amended: if the first pass wrote its state, the second pass attempts no
\* asset that the first pass synced or skipped; it only tries again assets whose
\* sync failed in the first pass.
C9_IdempotentAfterSuccess ==
    ( /\ SecondPassDone
      /\ ~Prev.force
      /\ Prev.fs_during = <<>> /\ fs_between = <<>> /\ fs_during = <<>>
      /\ Prev.wrote )
    => \A j \in Idents \ Prev.failed : j \notin attempted

\* the first pass synced assets without a failure and the second synced nothing
C9_Witness ==
    /\ SecondPassDone
    /\ ~Prev.force
    /\ Prev.fs_during = <<>> /\ fs_between = <<>> /\ fs_during = <<>>
    /\ Prev.wrote
    /\ Prev.synced # {} /\ Prev.failed = {}
    /\ attempted = {}

\* asset i, and nothing else, was modified between the two passes
OnlyModified(i) ==
    /\ Prev.fs_during = <<>>
    /\ fs_between = << <<"file", i>> >>
    /\ fs_during = <<>>

\* C10 as stated: after a pass, modifying the bytes of exactly one asset makes
\* the next non-forced pass for the same target attempt exactly that asset.
C10_ChangeDetection ==
    \A i \in Idents :
      (SecondPassDone /\ OnlyModified(i)) => attempted = {i}

\* C10 amended: if the earlier pass wrote its state, then among the assets it
\* synced or skipped the next pass attempts the modified asset and no other.
C10_ChangeDetectionAfterSuccess ==
    \A i \in Idents :
      (SecondPassDone /\ OnlyModified(i) /\ Prev.wrote)
      => \A j \in Idents \ Prev.failed : (j \in attempted) <=> (j = i)

\* after a pass without failure one asset was modified and only it was resynced
C10_Witness ==
    \E i \in Idents :
      /\ SecondPassDone /\ OnlyModified(i) /\ Prev.wrote
      /\ Prev.failed = {}
      /\ attempted = {i}
      /\ i \notin failed

\* asset i has a record under the pass's local target with its current hash
\* and a recorded output file
RecordedUnchanged(i) ==
    /\ TargetType(target) = "Local"
    /\ i \in DOMAIN prev_state
    /\ target \in DOMAIN prev_state[i].targets
    /\ prev_state[i].targets[target].hash = assets[i].hash
    /\ prev_state[i].targets[target].local_path # <<>>

\* C11: when a local pass reaches an asset whose source is unchanged (the
\* recorded hash is its hash) and whose recorded output file does not exist,
\* it resyncs the asset, and the TargetState the resync records names a
\* local_path that exists on disk.
C11_LocalArtifactRecovery ==
    [][ \A i \in todo \ todo' :
          ( /\ RecordedUnchanged(i)
            /\ prev_state[i].targets[target].local_path[1] \notin disk )
          => /\ i \in attempted'
             /\ i \notin failed' =>
                  /\ assets'[i].targets[target].local_path # <<>>
                  /\ assets'[i].targets[target].local_path[1] \in disk'
                  /\ assets'[i].targets[target].hash = assets[i].hash ]_vars

\* a non-forced local pass has re-created the deleted output of an unchanged
\* asset, and the file it recorded exists
C11_Witness ==
    /\ pc_sync = "sync"
    /\ ~force_sync
    /\ \E i \in attempted \ failed :
         /\ RecordedUnchanged(i)
         /\ assets[i].targets[target].local_path # <<>>
         /\ assets[i].targets[target].local_path[1] \in disk
         /\ \/ prev_state[i].targets[target].local_path[1] \notin disk
            \/ prev_state[i].targets[target].local_path
                 = assets[i].targets[target].local_path

\* the step in which sync_with_config writes the state and returns
ReturnStep == pc_sync = "sync" /\ pc_sync' = "done"

\* the targets map asset i had in the previous state
PrevTargets(i) == IF i \in DOMAIN prev_state THEN prev_state[i].targets ELSE <<>>

\* C12: an asset that is skipped or whose sync fails keeps its targets map as
\* it was in the previous state, both when the strategy is done with it and in
\* the state written at the end of the pass; only a successful sync records a
\* TargetState.
C12_NoRecordWithoutSuccess ==
    [][ /\ \A i \in todo \ todo' :
             (i \in failed' \/ i \notin attempted')
             => assets'[i].targets = PrevTargets(i)
        /\ (ReturnStep /\ wrote')
             => \A i \in DOMAIN assets \ (attempted \ failed) :
                  /\ i \in DOMAIN state_file'
                  /\ state_file'[i].targets = PrevTargets(i) ]_vars

\* a written state in which a failed asset kept its old record and another
\* asset was skipped
C12_Witness ==
    /\ pc_sync = "done"
    /\ wrote
    /\ \E i \in failed :
         /\ i \in DOMAIN state_file
         /\ target \in DOMAIN state_file[i].targets
    /\ \E j \in DOMAIN state_file : j \notin attempted

\* C13: the state written at the end of a pass for target t holds, unchanged,
\* every TargetState the previous state held under a key other than t.
C13_OtherTargetsPreserved ==
    [][ (ReturnStep /\ wrote')
        => \A i \in DOMAIN prev_state :
             \A k \in DOMAIN prev_state[i].targets \ {target} :
               /\ i \in DOMAIN state_file'
               /\ k \in DOMAIN state_file'[i].targets
               /\ state_file'[i].targets[k] = prev_state[i].targets[k] ]_vars

\* the soft errors collected by the pass that returns in this step: those of
\* discovery, those of the strategy and that of codegen
Collected ==
    Cardinality(DiscoveryErrors) + Cardinality(failed)
      + (IF errors' # errors THEN 1 ELSE 0)

\* the returned result is success iff no soft error was collected, and
\* otherwise HadErrors with their number
ResultCounts ==
    /\ (result' = "Ok") <=> (Collected = 0)
    /\ Collected > 0 => (result' = "HadErrors" /\ error_count' = Collected)

\* the state holding every record that succeeded has been persisted
Persisted ==
    /\ wrote'
    /\ \A i \in attempted \ failed :
         /\ i \in DOMAIN state_file'
         /\ target \in DOMAIN state_file'[i].targets
         /\ state_file'[i].targets[target] = assets[i].targets[target]
         /\ state_file'[i].targets[target].hash = assets[i].hash

----------------------------------------------------------------------------
\* Properties of the remote strategy's futures

\* the future of asset i takes a step from the place p
TaskStep(i, p) ==
    /\ i \in DOMAIN tasks
    /\ i \in DOMAIN tasks'
    /\ tasks[i].pc = p
    /\ tasks'[i] # tasks[i]

\* C15: an asset's create request is sent at most three times in one pass,
\* the first at once and each later one after a sleep of three seconds, and
\* the create loop marks the asset Failed with UploadFailed exactly when the
\* third request has failed too.
C15_CreateRetryBound ==
    [][ \A i \in Idents : TaskStep(i, "create") =>
          /\ tasks[i].creates < max_create_failures
          /\ tasks[i].creates = tasks[i].create_idx
          /\ tasks[i].waited = (IF tasks[i].creates = 0 THEN 0 ELSE CreateRetryDelay)
          /\ (tasks'[i].pc = "failed")
               <=> /\ tasks[i].creates = max_create_failures - 1
                   /\ tasks'[i].pc # "poll"
                   /\ pc_sync' # "panicked"
          /\ tasks'[i].pc = "failed" =>
               /\ tasks'[i].error = "UploadFailed"
               /\ i \in failed' ]_vars

\* three create requests of one asset have failed and it is marked Failed
C15_Witness ==
    \E i \in DOMAIN tasks :
        /\ tasks[i].pc = "failed"
        /\ tasks[i].phase = "create"
        /\ tasks[i].error = "UploadFailed"
        /\ i \in failed

\* a poll of asset i that was answered neither by the asset nor by an error
NotDoneStep(i) ==
    /\ TaskStep(i, "poll")
    /\ tasks'[i].pc \in {"poll", "failed"}
    /\ tasks'[i].poll_errs = tasks[i].poll_errs

\* C16: a poll answered "not done yet" waits and polls again without counting
\* a failure, so the asset is not marked Failed by it.
C16_NotDoneIsNoFailure ==
    [][ \A i \in Idents : NotDoneStep(i) =>
          /\ tasks'[i].pc = "poll"
          /\ tasks'[i].get_failures = tasks[i].get_failures
          /\ tasks'[i].get_idx = tasks[i].get_idx + 1
          /\ tasks'[i].waited = Pow2(tasks'[i].get_idx) ]_vars

\* C17: the poll loop's failure counter counts the polls answered by an error
\* and the asset is marked Failed by the poll loop exactly when three polls
\* have been answered by an error.
C17_PollFailureBound ==
    [][ \A i \in Idents : TaskStep(i, "poll") =>
          /\ tasks'[i].pc = "poll" => tasks'[i].get_failures = tasks'[i].poll_errs
          /\ (tasks'[i].pc = "failed") <=> (tasks'[i].poll_errs = max_get_failures) ]_vars

\* the id the backend's answers give asset i: the image id for a decal, the
\* polled asset id otherwise
FinalId(i) == IF IsDecal(i) THEN <<"image", i>> ELSE <<"asset", i>>

\* the future of asset i returns Ok
ResolveStep(i) ==
    /\ i \in DOMAIN tasks
    /\ i \in DOMAIN tasks'
    /\ tasks[i].pc # "resolved"
    /\ tasks'[i].pc = "resolved"

\* C18: when an upload succeeds exactly one TargetState is inserted for the
\* asset, under the current target key, with the asset's current hash, the id
\* "rbxassetid://" followed by the final id and no local path; and nothing
\* else changes any record during the strategy.
C18_RemoteRecord ==
    [][ /\ \A i \in Idents : ResolveStep(i) =>
              /\ assets'[i].targets =
                   Put(assets[i].targets, target,
                       [hash |-> assets[i].hash,
                        id |-> <<"rbxassetid://", FinalId(i)>>,
                        local_path |-> <<>>])
              /\ assets'[i].hash = assets[i].hash
              /\ \A j \in DOMAIN assets \ {i} : assets'[j] = assets[j]
        /\ (pc_sync = "sync" /\ pc_sync' = "sync" /\ TargetType(target) = "Roblox"
               /\ assets' # assets)
              => \E i \in Idents : ResolveStep(i) ]_vars

\* a decal and another asset have been uploaded and recorded
C18_Witness ==
    /\ TargetType(target) = "Roblox"
    /\ \E i, j \in DOMAIN tasks :
        /\ IsDecal(i) /\ ~IsDecal(j)
        /\ tasks[i].pc = "resolved" /\ tasks[j].pc = "resolved"
        /\ assets[i].targets[target].id = <<"rbxassetid://", <<"image", i>> >>
        /\ assets[j].targets[target].id = <<"rbxassetid://", <<"asset", j>> >>

\* C19: when the remote strategy returns every selected asset's future has
\* returned, ok_count is the number of assets that got a new record, err_count
\* the number of futures that failed, their sum the number of selected assets,
\* and the assets left over are the skipped ones.
C19_RemoteCounts ==
    [][ (ReturnStep /\ TargetType(target) = "Roblox") =>
          LET selected == {i \in DOMAIN assets : ShouldSync(i)}
              resolved == {i \in DOMAIN tasks : tasks[i].pc = "resolved"}
              rejected == {i \in DOMAIN tasks : tasks[i].pc = "failed"}
          IN /\ DOMAIN tasks = selected
             /\ resolved \cup rejected = selected
             /\ ok_count = Cardinality(resolved)
             /\ resolved = {i \in DOMAIN assets : assets[i].targets # PrevTargets(i)}
             /\ err_count = Cardinality(rejected)
             /\ err_count = errors - Cardinality(DiscoveryErrors)
             /\ ok_count + err_count = Cardinality(selected)
             /\ Cardinality(DOMAIN assets) - ok_count - err_count
                    = Cardinality(DOMAIN assets \ selected) ]_vars

\* a remote pass has returned with one upload done and one failed
C19_Witness ==
    /\ pc_sync = "done"
    /\ TargetType(target) = "Roblox"
    /\ ok_count = 1
    /\ err_count = 1

----------------------------------------------------------------------------
\* Properties of codegen's tree

\* p is a proper prefix of q
IsProperPrefix(p, q) == Len(p) < Len(q) /\ SubSeq(q, 1, Len(p)) = p

\* two idents of the State of which one's transformed path is a leaf and an
\* intermediate node of the other's
TreeConflict ==
    /\ ~tree_in.config.flatten
    /\ \E p, q \in DOMAIN tree_in.state :
         IsProperPrefix(transform_ident(p, tree_in.config),
                        transform_ident(q, tree_in.config))

\* every asset of the State has a record for the target
AllRecorded ==
    \A i \in DOMAIN tree_in.state : tree_in.target \in DOMAIN tree_in.state[i].targets

\* C20: generate_tree fails with TreeStructure whenever two idents of the
\* State conflict as a leaf and an intermediate node, whichever of the two
\* is inserted first.
C20_TreeConflictIsError ==
    (tree_out.kind # "none" /\ AllRecorded /\ TreeConflict)
        => tree_out = TreeError("TreeStructure")

\* a conflict that generate_tree reports
C20_Reported ==
    /\ tree_out.kind = "Err"
    /\ AllRecorded
    /\ TreeConflict

----------------------------------------------------------------------------
\* Properties of the strategies' error handling

C22_RemapBound ==
    [][ \A i \in Idents :
          /\ TaskStep(i, "remap") =>
               /\ IsDecal(i)
               /\ tasks[i].asset_id = <<"asset", i>>
               /\ tasks[i].remap_idx < max_textureid_failures
               /\ (tasks'[i].pc = "failed")
                    <=> /\ tasks[i].remap_idx = max_textureid_failures - 1
                        /\ tasks'[i].pc # "resolved"
               /\ tasks'[i].pc = "failed" =>
                    /\ tasks'[i].error = "RobloxApi"
                    /\ i \in failed'
                    /\ assets'[i].targets = PrevTargets(i)
               /\ tasks'[i].pc \in {"remap", "resolved", "failed"}
          /\ (i \in DOMAIN tasks /\ i \in DOMAIN tasks' /\ tasks[i].pc = "failed")
               => tasks'[i] = tasks[i]
          /\ ResolveStep(i) => tasks[i].pc = (IF IsDecal(i) THEN "remap" ELSE "poll")
          /\ (i \in DOMAIN tasks' /\ tasks'[i].pc = "remap") => IsDecal(i) ]_vars

\* three lookups for a decal failed and it is marked Failed without a record
C22_Witness ==
    \E i \in DOMAIN tasks :
        /\ IsDecal(i)
        /\ tasks[i].pc = "failed"
        /\ tasks[i].phase = "remap"
        /\ tasks[i].error = "RobloxApi"
        /\ target \notin DOMAIN assets[i].targets

----------------------------------------------------------------------------
\* Properties of the listener's errors

\* the debounce task receives an error of the listener
ErrRecvStep ==
    /\ notify_rx # <<>>
    /\ Head(notify_rx) = "Err"
    /\ notify_rx' = Tail(notify_rx)

\* the scheduler receives a forwarded error
SchedErrStep ==
    /\ debounced_rx # <<>>
    /\ Head(debounced_rx) = "Err"
    /\ debounced_rx' = Tail(debounced_rx)

\* C23: the debounce task forwards an error of the listener in the step in
\* which it receives it, however long the quiet period has lasted, and keeps
\* a pending change pending; the scheduler neither starts a pass nor sets the
\* run-again flag for it; and a pending change is still signalled afterwards
\* (while watch mode is not shutting down).
C23_ErrorsBypassDebounce ==
    /\ [][ /\ (ErrRecvStep /\ ~rx_closed) =>
                /\ debounced_rx' = Append(debounced_rx, "Err")
                /\ changed' = changed
                /\ signals' = signals
                /\ unsignalled' = unsignalled
           /\ SchedErrStep =>
                /\ started' = started
                /\ running' = running
                /\ sync_task' = sync_task
                /\ sync_again' = sync_again ]_vars
    /\ ((changed /\ ~Stopping) ~> (~changed \/ Stopping))

\* an error was forwarded before the quiet period of a pending change ended
C23_Witness ==
    /\ changed
    /\ timer < Duration
    /\ since_event < Duration
    /\ debounced_rx # <<>>
    /\ debounced_rx[Len(debounced_rx)] = "Err"
    /\ ~Stopping

(***************************************************************************)
(* Part V: sync(), sync.rs:53-70: the config is read and the target found  *)
(* before sync_with_config is called.                                      *)
(***************************************************************************)
\* sync.rs:53-70  sync(): Config::read_from_folder_or_file(...)?, the target
\* of the requested key or ConfigError::UnknownTarget, then sync_with_config
SyncCall ==
    /\ call = "none"
    /\ LET config == read_from_file(config_file)
       IN IF config[1] = "Err"
          THEN /\ call' = config[2]
               /\ target' = target
          ELSE LET found == find(config[2], requested)
               IN IF found = <<>>
                  THEN /\ call' = "UnknownTarget"
                       /\ target' = target
                  ELSE /\ call' = "sync_with_config"
                       /\ target' = found[1].key
    /\ UNCHANGED <<files, disk, now, state_file, pc_sync, force_sync, prev_state,
                   assets, errors, todo, ok_count, err_count, result, passes,
                   steps_left, attempted, failed, wrote, prev_pass, timestamp,
                   fs_during, fs_between, fs_idle, entries, codegens,
                   error_count>>
    /\ UNCHANGED <<config_file, requested>>
    /\ UNCHANGED <<watchVars, histVars, uploadVars, treeVars, passHist>>

\* sync.rs:69: the pass runs once sync() has called sync_with_config
SyncWithConfig ==
    /\ call = "sync_with_config"
    /\ PassNext

\* a sync command started on a project that has not been synced or whose
\* files are all recorded, with any runway.toml and any requested key
ConfigInit ==
    /\ WatchInit
    /\ config_file \in ConfigFiles
    /\ requested \in RequestedKeys
    /\ call = "none"
    /\ target = "none"
    /\ state_file \in {<<>>, SyncedState(1)}
    /\ entries = [i \in Idents |-> "file"]
    /\ disk = {}
    /\ codegens = 1
    /\ steps_left = 1
    /\ files = [i \in Idents |-> 1]
    /\ now = 0
    /\ pc_sync = "idle"
    /\ force_sync = FALSE
    /\ prev_state = <<>>
    /\ assets = <<>>
    /\ errors = 0
    /\ todo = {}
    /\ ok_count = 0
    /\ err_count = 0
    /\ result = "none"
    /\ error_count = 0
    /\ passes = 0
    /\ attempted = {}
    /\ failed = {}
    /\ wrote = FALSE
    /\ prev_pass = <<>>
    /\ timestamp = 0
    /\ fs_during = <<>>
    /\ fs_between = <<>>
    /\ fs_idle = <<>>
    /\ tasks = <<>>
    /\ tree_in = <<>>
    /\ tree_out = <<>>
    /\ uploaded = <<>>
    /\ generated = 0

ConfigNext ==
    \/ SyncCall
    \/ SyncWithConfig

ConfigSpec == ConfigInit /\ [][ConfigNext]_vars

\* the keys of the targets of runway.toml, defaulted ones included
ConfigKeys == [n \in DOMAIN config_file.targets |->
                 TargetConfig(config_file.targets[n]).key]

DuplicateKeys == \E n, m \in DOMAIN ConfigKeys : n # m /\ ConfigKeys[n] = ConfigKeys[m]

UnknownTarget == \A n \in DOMAIN ConfigKeys : ConfigKeys[n] # requested

ConfigErrors == {"Io", "Toml", "DuplicateKeys", "UnknownTarget"}

\* C24: a runway.toml that cannot be read, has two targets of one key (a
\* missing key counting as the type's name) or lacks the requested key makes
\* sync() return a ConfigError, and a call that returned one has started no
\* pass: the state was not read, no asset discovered, nothing written or
\* uploaded, and the state file is as it was; a pass only ever runs for the
\* requested key.
C24_ConfigErrorsAreFatal ==
    /\ []( /\ (call # "none" /\ (DuplicateKeys \/ UnknownTarget)) => call \in ConfigErrors
           /\ (call # "none" /\ config_file.readable /\ config_file.toml_ok
                  /\ DuplicateKeys) => call = "DuplicateKeys"
           /\ call \in ConfigErrors \cup {"none"} =>
                 /\ pc_sync = "idle" /\ passes = 0 /\ ~wrote
                 /\ prev_state = <<>> /\ assets = <<>> /\ todo = {}
                 /\ disk = {} /\ tasks = <<>> /\ uploaded = <<>>
                 /\ generated = 0 /\ result = "none"
           /\ passes > 0 => /\ call = "sync_with_config"
                            /\ target = requested
                            /\ ~DuplicateKeys )
    /\ [][ (call \in ConfigErrors \cup {"none"}) => (state_file' = state_file) ]_vars

\* two targets without a key and of one type were refused
C24_Witness ==
    /\ call = "DuplicateKeys"
    /\ \E n, m \in DOMAIN config_file.targets :
         /\ n # m
         /\ config_file.targets[n].key = <<>>
         /\ config_file.targets[m] = config_file.targets[n]
    /\ requested \in {ConfigKeys[n] : n \in DOMAIN ConfigKeys}
    /\ state_file # <<>>
(***************************************************************************)
(* Part VI: watch mode with the passes it spawns, watch.rs:170-219 with    *)
(* sync_with_config, for a remote target and a project of one asset file.  *)
(***************************************************************************)
\* watch.rs:202-216: the Result the join handle yields for what the pass
\* returned
JoinResult(r) == IF r = "Ok" THEN "Ok" ELSE "Err"

\* watch.rs:170-177: the spawned task calls sync_with_config, with
\* force: false (watch.rs:105-109)
SyncTaskBegin ==
    /\ pc = "loop"
    /\ running > 0
    /\ pc_sync = "idle"
    /\ SyncBegin
    /\ force_sync' = FALSE

\* the pass of the spawned task goes on
SyncTaskStep ==
    /\ pc = "loop"
    /\ running > 0
    /\ \/ LocalSyncAsset
       \/ RobloxSyncAsset
       \/ WriteState

\* watch.rs:174-176: sync_with_config has returned and the task finishes with
\* its result
SyncTaskReturn ==
    /\ pc = "loop"
    /\ running > 0
    /\ pc_sync = "done"
    /\ pc_sync' = "idle"
    /\ running' = running - 1
    /\ sync_task' = IF sync_task = "Pending" THEN JoinResult(result) ELSE sync_task
    /\ UNCHANGED <<pc, notify_rx, debounced_rx, rx_closed, changed, timer, debounce,
                   sync_again, sigint, events_left>>
    /\ UNCHANGED histVars
    /\ UNCHANGED <<files, disk, now, state_file, force_sync, target, prev_state,
                   assets, errors, todo, ok_count, err_count, result, passes,
                   steps_left, attempted, failed, wrote, prev_pass, timestamp,
                   fs_during, fs_between, fs_idle, entries, codegens,
                   error_count>>
    /\ UNCHANGED <<uploadVars, treeVars, passHist, configVars>>

WatchPassInit ==
    /\ WatchInit
    /\ target \in TargetKeys
    /\ entries = [i \in Idents |-> IF i = 1 THEN "file" ELSE "none"]
    /\ codegens = 1
    /\ steps_left = MaxEvents + 1
    /\ files = [i \in Idents |-> 1]
    /\ disk = {}
    /\ now = 0
    /\ state_file = <<>>
    /\ pc_sync = "idle"
    /\ force_sync = FALSE
    /\ prev_state = <<>>
    /\ assets = <<>>
    /\ errors = 0
    /\ todo = {}
    /\ ok_count = 0
    /\ err_count = 0
    /\ result = "none"
    /\ error_count = 0
    /\ passes = 0
    /\ attempted = {}
    /\ failed = {}
    /\ wrote = FALSE
    /\ prev_pass = <<>>
    /\ timestamp = 0
    /\ fs_during = <<>>
    /\ fs_between = <<>>
    /\ fs_idle = <<>>
    /\ tasks = <<>>
    /\ tree_in = <<>>
    /\ tree_out = <<>>
    /\ uploaded = <<>>
    /\ generated = 0
    /\ config_file = DefaultConfig
    /\ requested = target
    /\ call = "sync_with_config"

WatchPassNext ==
    \/ WatcherSetup
    \/ NotifyEvent
    \/ NotifyError
    \/ Tick
    \/ CtrlC
    \/ DebounceRecv
    \/ DebounceTimeout
    \/ SchedRecv
    \/ SchedClosed
    \/ SyncTaskBegin
    \/ SyncTaskStep
    \/ SyncTaskReturn
    \/ SchedJoin
    \/ SchedCtrlC

WatchPassSpec == WatchPassInit /\ [][WatchPassNext]_vars

\* the pass returns without having written the state file
WriteFailed == pc_sync = "sync" /\ pc_sync' = "done" /\ ~wrote'

\* the scheduler receives a change signal
SchedOkStep ==
    /\ pc = "loop"
    /\ debounced_rx # <<>>
    /\ Head(debounced_rx) = "Ok"
    /\ debounced_rx' = Tail(debounced_rx)

\* C25: a pass whose state file cannot be written returns the state error,
\* whatever errors were raised before, without a HadErrors count and without
\* having called codegen, and leaves the state file as it was; a pass that
\* wrote it calls codegen once.  In watch mode the task of such a pass
\* finishes with Err, joining it clears the handle and keeps the scheduler in
\* its loop, and the next change signal received with no pass running starts
\* a pass.
C25_StateErrorIsFatal ==
    [][ /\ WriteFailed => /\ result' = "State"
                          /\ error_count' = 0
                          /\ generated' = 0
                          /\ state_file' = state_file
        /\ (pc_sync = "sync" /\ pc_sync' = "done" /\ wrote') =>
               /\ generated' = 1
               /\ result' \in {"Ok", "HadErrors"}
        /\ (pc_sync = "done" /\ pc_sync' = "idle" /\ result = "State"
              /\ sync_task = "Pending") => (sync_task' = "Err" /\ pc' = "loop")
        /\ (sync_task = "Err" /\ sync_task' # "Err") =>
               (sync_task' = "None" /\ pc' = "loop" /\ rx_closed' = rx_closed)
        /\ (SchedOkStep /\ sync_task = "None") =>
               (sync_task' = "Pending" /\ started' = started + 1) ]_vars

\* a pass with a failed asset could not write the state file, and the pass
\* the scheduler started after it wrote the file
C25_Witness ==
    /\ prev_pass # <<>>
    /\ ~prev_pass[1].wrote
    /\ prev_pass[1].failed # {}
    /\ pc_sync = "idle"
    /\ wrote
    /\ result = "Ok"
    /\ sync_task = "Ok"

\* every poll that leaves its future running was the next of its operation
\* and was slept for by 2^n seconds, more than the poll before it
PollDelays ==
    [][ \A i \in Idents :
          (TaskStep(i, "poll") /\ tasks'[i].pc \in {"poll", "remap"}) =>
             /\ tasks'[i].get_idx = tasks[i].get_idx + 1
             /\ tasks'[i].waited = Pow2(tasks'[i].get_idx)
             /\ tasks[i].get_idx > 0 => tasks'[i].waited = 2 * tasks[i].waited ]_vars

\* C27: the n-th poll of an operation is slept for by 2^n seconds, and the
\* number of polls is not capped: an operation that is not done is polled
\* again, however often it was polled before.
C27_BackoffUncapped ==
    [][ \A i \in Idents :
          /\ (TaskStep(i, "poll") /\ tasks'[i].pc \in {"poll", "remap"}) =>
                /\ tasks'[i].get_idx = tasks[i].get_idx + 1
                /\ tasks'[i].waited = Pow2(tasks'[i].get_idx)
          /\ NotDoneStep(i) => tasks'[i].pc = "poll" ]_vars

\* the places of a future in the order the code passes through them
PcRank(p) ==
    IF p \in {"create", "retry"} THEN 1
    ELSE IF p = "poll" THEN 2
    ELSE IF p = "remap" THEN 3
    ELSE 4

\* C28: within a pass the future of an asset only moves forward: create
\* requests are sent from the create loop only, which is left for good by the
\* create that succeeded; polls and lookups are only sent for an operation a
\* create returned and send no create; a future that resolved or failed does
\* nothing more.
C28_ForwardOnly ==
    [][ \A i \in Idents : (i \in DOMAIN tasks /\ i \in DOMAIN tasks') =>
          /\ PcRank(tasks'[i].pc) >= PcRank(tasks[i].pc)
          /\ tasks[i].pc \in {"poll", "remap"} =>
                /\ tasks[i].delivered # <<>>
                /\ tasks[i].creates >= 1
                /\ tasks'[i].pc \in {"poll", "remap"} =>
                      /\ tasks'[i].creates = tasks[i].creates
                      /\ tasks'[i].create_idx = tasks[i].create_idx
                      /\ tasks'[i].delivered = tasks[i].delivered
          /\ tasks[i].pc \in {"create", "retry"} =>
                /\ tasks[i].delivered = <<>>
                /\ tasks[i].get_idx = 0
                /\ tasks'[i].pc = "poll" =>
                      /\ tasks[i].pc = "create"
                      /\ tasks'[i].creates = tasks[i].creates + 1
          /\ tasks[i].pc \in {"resolved", "failed"} => tasks'[i] = tasks[i] ]_vars

\* the pass is over for an asset whose polls failed after its create succeeded
C28_Witness ==
    /\ pc_sync = "sync"
    /\ todo = {}
    /\ \E i \in DOMAIN tasks :
         /\ tasks[i].pc = "failed"
         /\ tasks[i].phase = "poll"
         /\ tasks[i].poll_errs > 0

\* C29: the hash recorded for an asset and a target is the hash of the source
\* bytes that the target received in the delivery recorded, also when the
\* file changed between discovery and delivery.
C29_HashOfDelivered ==
    \A d \in DOMAIN uploaded :
        /\ (pc_sync = "sync" /\ d[1] \in DOMAIN assets) =>
              assets[d[1]].targets[d[2]].hash
                = generate_asset_hash(uploaded[d].source)
        /\ (pc_sync = "done" /\ wrote /\ d[1] \in DOMAIN state_file) =>
              state_file[d[1]].targets[d[2]].hash
                = generate_asset_hash(uploaded[d].source)

\* the same for the deliveries of the local strategy only
LocalHashOfDelivered == (target = "local") => C29_HashOfDelivered

\* C30: what a target receives for an asset is the output of the preprocess
\* hook for the contents read at discovery, in the futures' create requests
\* as in the deliveries recorded; an asset whose hook failed is delivered
\* nothing.
C30_HookOutputDelivered ==
    pc_sync = "sync" =>
      /\ \A d \in DOMAIN uploaded :
            uploaded[d] = preprocess(d[1], assets[d[1]].contents)
      /\ \A i \in DOMAIN tasks :
            /\ tasks[i].delivered # <<>> =>
                  tasks[i].delivered = preprocess(i, assets[i].contents)
            /\ (tasks[i].pc = "failed" /\ tasks[i].phase = "preprocess") =>
                  <<i, target>> \notin DOMAIN uploaded

\* the create requests apart, the hook's output is what is delivered
HookOutputDeliveredLocally ==
    pc_sync = "sync" =>
      /\ (target = "local") =>
            \A d \in DOMAIN uploaded :
               uploaded[d] = preprocess(d[1], assets[d[1]].contents)
      /\ \A i \in DOMAIN tasks :
            (tasks[i].pc = "failed" /\ tasks[i].phase = "preprocess") =>
               <<i, target>> \notin DOMAIN uploaded

----------------------------------------------------------------------------
\* Properties of the shutdown

\* no pass is started once the ctrl_c branch has closed the receiver
NoStartAfterClose == [][ rx_closed => started' = started ]_vars

\* the debounce task does not panic
DebounceSurvives == debounce # "panicked"

\* C31: once the scheduler has handled ctrl-c it starts no pass, neither for a
\* signal that was queued nor for a set sync_again, and the debounce task's
\* later sends do not panic it.
C31_ShutdownAcceptsNothing ==
    /\ [][ rx_closed => started' = started ]_vars
    /\ [](debounce # "panicked")

----------------------------------------------------------------------------
\* Properties of the local strategy's file names

\* the assets the strategy has just synced
JustSynced == (attempted' \ attempted) \ failed'

\* the file a local sync writes is named by the pass's timestamp
CacheBustName ==
    [][ (pc_sync = "sync" /\ TargetType(target) = "Local") =>
          \A i \in JustSynced :
             /\ assets'[i].targets[target].local_path
                   = <<with_cache_bust(i, timestamp)>>
             /\ assets'[i].targets[target].id
                   = <<"rbxasset://", with_cache_bust(i, timestamp)>> ]_vars

\* C32: a local resync names its output <stem>-<token>.<ext>, writes no file
\* that an earlier pass wrote and records an id and a local_path other than
\* those recorded for the asset before.
C32_CacheBustIsFresh ==
    [][ (pc_sync = "sync" /\ TargetType(target) = "Local") =>
          \A i \in JustSynced :
             LET new == assets'[i].targets[target]
             IN /\ new.local_path = <<with_cache_bust(i, timestamp)>>
                /\ new.local_path[1] \notin disk
                /\ (i \in DOMAIN prev_state /\ target \in DOMAIN prev_state[i].targets) =>
                      /\ new.id # prev_state[i].targets[target].id
                      /\ new.local_path # prev_state[i].targets[target].local_path ]_vars

\* a second pass, begun in the second in which the first one ran, has synced
\* a changed asset under the name the first pass had recorded for it
SameSecondResync ==
    /\ pc_sync = "sync"
    /\ TargetType(target) = "Local"
    /\ passes = 2
    /\ prev_pass # <<>>
    /\ \E i \in attempted \ failed :
         /\ i \in prev_pass[1].synced
         /\ i \in DOMAIN prev_state
         /\ target \in DOMAIN prev_state[i].targets
         /\ prev_state[i].targets[target].hash # assets[i].hash
         /\ prev_state[i].targets[target].id = assets[i].targets[target].id
         /\ prev_state[i].targets[target].local_path
               = assets[i].targets[target].local_path

----------------------------------------------------------------------------
\* Properties of the scheduler's states

\* after a pass that returned Ok the scheduler is idle with the flag clear
FlagClearAfterOk ==
    [][ (sync_task = "Ok" /\ sync_task' = "None") => ~sync_again' ]_vars

\* C33: while the scheduler holds no pass, sync_again is clear: it is idle, or
\* running with or without a rerun pending, and in no other state.
C33_IdleFlagClear == (sync_task = "None") => ~sync_again

----------------------------------------------------------------------------
\* Properties of a failed asset's next pass

\* no asset file was modified since the pass before the current one began
NoFileModified ==
    /\ Prev.fs_during \in {<<>>, << <<"artifact", 0>> >>}
    /\ fs_between \in {<<>>, << <<"artifact", 0>> >>}
    /\ fs_during \in {<<>>, << <<"artifact", 0>> >>}

\* C34: an asset whose sync failed in a non-forced pass is selected again by
\* the next pass for the same target when no asset file was modified since:
\* the failed pass left no record of the asset's hash under the target.
C34_FailedIsRetried ==
    /\ (SecondPassDone /\ ~Prev.force /\ NoFileModified) =>
          Prev.failed \subseteq attempted
    /\ (pc_sync = "done" /\ wrote) =>
          \A i \in failed \cap DOMAIN state_file :
             target \in DOMAIN state_file[i].targets =>
                \/ state_file[i].targets[target].hash # generate_asset_hash(files[i])
                \/ fs_during # <<>>
                \/ force_sync
                \/ TargetType(target) = "Local"

\* the second pass synced the asset that failed in the first and skipped the
\* asset that the first had synced
C34_Witness ==
    /\ SecondPassDone
    /\ ~Prev.force
    /\ NoFileModified
    /\ Prev.wrote
    /\ \E i \in Prev.failed, j \in Prev.synced :
         /\ i \in attempted \ failed
         /\ j \notin attempted

----------------------------------------------------------------------------
\* Properties of the state written

\* the pass writes the state file
WroteStep == pc_sync = "sync" /\ pc_sync' = "done" /\ wrote'

\* C35: the state a pass writes has a record for every asset the pass
\* discovered, holding that asset's targets, and for no other ident: what the
\* previous state recorded for an ident that was not discovered is gone.
C35_StateIsDiscovered ==
    [][ WroteStep =>
          /\ DOMAIN state_file' = Discovered
          /\ DOMAIN state_file' = DOMAIN assets
          /\ \A i \in Discovered : state_file'[i] = [targets |-> assets[i].targets]
          /\ \A i \in DOMAIN prev_state \ Discovered : i \notin DOMAIN state_file' ]_vars

\* a non-forced pass skipped an asset, which the previous state therefore
\* recorded as it did every ident, and wrote a state without the idents whose
\* file was gone or unreadable
C35_Witness ==
    /\ pc_sync = "done"
    /\ wrote
    /\ ~force_sync
    /\ \E j \in DOMAIN state_file : j \notin attempted
    /\ \E i \in Idents : entries[i] # "file" /\ i \notin DOMAIN state_file

----------------------------------------------------------------------------
\* Properties of the generated tree's leaves

\* the ids at the leaves of a tree
RECURSIVE LeafIds(_)
LeafIds(v) ==
    IF v.kind = "Id" THEN {v.id}
    ELSE UNION {LeafIds(v.obj[k]) : k \in DOMAIN v.obj}

\* the number of leaves of a tree
RECURSIVE LeafCount(_)
RECURSIVE SumLeaves(_, _)
SumLeaves(obj, keys) ==
    IF keys = {} THEN 0
    ELSE LET k == CHOOSE x \in keys : TRUE
         IN LeafCount(obj[k]) + SumLeaves(obj, keys \ {k})
LeafCount(v) == IF v.kind = "Id" THEN 1 ELSE SumLeaves(v.obj, DOMAIN v.obj)

\* the ids the State records for the target
RecordedIds ==
    {tree_in.state[i].targets[tree_in.target].id : i \in DOMAIN tree_in.state}

\* two idents of the State with the same transformed path
SameKey ==
    \E p, q \in DOMAIN tree_in.state :
        p # q /\ transform_ident(p, tree_in.config) = transform_ident(q, tree_in.config)

\* a tree is returned only for a State in which every asset has a record
TreeOnlyIfAllRecorded == tree_out.kind = "Object" => AllRecorded

\* a tree built from idents that neither collide nor conflict has every
\* asset's id at a leaf of its own
LeavesWithoutCollision ==
    (tree_out.kind = "Object" /\ ~SameKey /\ ~TreeConflict) =>
        /\ LeafIds(tree_out) = RecordedIds
        /\ LeafCount(tree_out) = Cardinality(DOMAIN tree_in.state)

\* C37: a tree that generate_tree returns has one leaf for every asset of the
\* State, holding the asset's id for the target, and a State with an asset
\* that has no record for the target fails with MissingAsset.
C37_OneLeafPerAsset ==
    /\ tree_out.kind = "Object" =>
          /\ AllRecorded
          /\ LeafIds(tree_out) = RecordedIds
          /\ LeafCount(tree_out) = Cardinality(DOMAIN tree_in.state)
    /\ (tree_out.kind # "none" /\ ~AllRecorded) =>
          tree_out = TreeError("MissingAsset")

\* two idents with the same transformed path, for which a tree was returned
SameKeyAccepted == tree_out.kind = "Object" /\ SameKey /\ ~TreeConflict

----------------------------------------------------------------------------
\* Properties of the passes of watch mode

\* a pass reads the previous state
ReadStep == pc_sync = "idle" /\ pc_sync' = "sync"

\* C36: in watch mode a pass is only spawned while no pass is at work and the
\* scheduler holds none, so at most one pass exists at any time; the state
\* file changes only by the write of the pass at work, and the previous state
\* a pass reads is the file as the last write left it.
C36_PassesDoNotOverlap ==
    /\ [](running <= 1)
    /\ []((pc_sync # "idle") => (running = 1 /\ sync_task = "Pending"))
    /\ [][ /\ started' # started =>
                 (pc_sync = "idle" /\ running = 0 /\ running' = 1
                  /\ sync_task \in {"None", "Ok"})
           /\ ReadStep => (prev_state' = state_file /\ state_file' = state_file)
           /\ state_file' # state_file => WroteStep
           /\ WroteStep => \A i \in DOMAIN state_file' :
                             state_file'[i].targets = assets[i].targets ]_vars

\* the second pass, with a rerun pending, has read the state that the first
\* pass wrote
C36_Witness ==
    /\ passes = 2
    /\ pc_sync = "sync"
    /\ sync_again
    /\ prev_pass # <<>>
    /\ prev_pass[1].wrote
    /\ prev_state # <<>>
    /\ prev_state = state_file

----------------------------------------------------------------------------
\* Properties of the remote pass's termination

\* a remote pass in which every request is answered comes to its end: it
\* returns, or panics on an operation path it does not expect
PassEnds == (pc_sync = "sync") ~> (pc_sync \in {"done", "panicked"})

\* when the strategy returns every future has resolved or failed
AllReturned ==
    [][ ReturnStep => \A i \in DOMAIN tasks : tasks[i].pc \in {"resolved", "failed"} ]_vars

\* C38: a remote pass whose requests are all answered ends with every future
\* resolved or failed; and a future leaves its poll loop only by an answer
\* that is the asset or an error, so that an operation that stays pending
\* keeps its future, and with it the pass, from returning.
C38_PendingHoldsPass ==
    /\ (pc_sync = "sync") ~> (pc_sync \in {"done", "panicked"})
    /\ [][ /\ ReturnStep =>
                 \A i \in DOMAIN tasks : tasks[i].pc \in {"resolved", "failed"}
           /\ \A i \in Idents :
                 NotDoneStep(i) => tasks'[i].pc \notin {"resolved", "failed"} ]_vars

====
